---- MODULE Spec2Model ----
(***************************************************************************)
(* Model of the investigation orchestration engine of PricingAgent_v2:     *)
(* the AgentState container (state.py), the execution wrapper              *)
(* BaseAgent.execute with its process-wide SimpleCache (base_agent.py),    *)
(* the order-enrichment workers (order_enricher_agent.py,                  *)
(* database_agent.py), the log-search and differencing workers, the        *)
(* supervisor (supervisor_agent.py) and the LangGraph routing functions    *)
(* of create_supervisor_graph (workflow.py).                               *)
(*                                                                         *)
(* Strings that the code inspects character by character (order ids) are   *)
(* sequences of one-character strings.  Python None is the value None for  *)
(* id-valued fields and the string "None" for the records-found flag.      *)
(***************************************************************************)
EXTENDS Integers, Sequences, FiniteSets, TLC

VARIABLES state, CACHE, settings, now, pc, calls, decisions, deviations

vars == <<state, CACHE, settings, now, pc, calls, decisions, deviations>>

(***************************************************************************)
(* Bounds of the model.                                                    *)
(***************************************************************************)
\* number of environment events in one behaviour: an exception raised by an
\* external call, an LLM answer different from the default one, a failed
\* classification, or one time-to-live of the cache passing
MaxDeviations == 1
\* length of the longest generated order id (IdInputs)
MaxIdLen == 10

(***************************************************************************)
(* Program constants.                                                      *)
(***************************************************************************)
\* settings.max_retries (config package; the value is the documented ceiling)
max_retries == 3
\* settings.cache_ttl_minutes (config package): the clock of the model
\* counts in units of the configured time-to-live
cache_ttl_minutes == 1
\* workflow.py:198  messages[-5:]
RecentWindow == 5
\* workflow.py:69 / order_enricher_agent.py:57
EnrichedLen == 9

None == <<"None">>

Truthy(x) == x # None /\ x # <<>>

\* order ids the classifier may return: none, a dotted D-prefixed id, a plain id
D12_345_678 == <<"D", "1", "2", ".", "3", "4", "5", ".", "6", "7", "8">>
A123 == <<"A", "1", "2", "3">>
OrderIds == {<<>>, D12_345_678, A123}

\* the inputs of the id helpers: the ids above, an id that is already
\* resolved, and every string of at most MaxIdLen characters that starts
\* with 'D', 'O' or '.' and goes on with digits and dots
ORD12345678 == <<"O", "R", "D", "1", "2", "3", "4", "5", "6", "7", "8">>
IdHeads == {"D", "O", "."}
IdTails == {"1", "."}
IdInputs ==
    OrderIds \cup {ORD12345678}
        \cup UNION {{<<h>> \o tl : h \in IdHeads, tl \in [1..(n - 1) -> IdTails]} :
                        n \in 1..MaxIdLen}

CurrentDate == "today"
\* the date of the primary order is left to the default (the current date);
\* the comparison order's date is the default or an explicit earlier day
PrimaryDates == {""}
ComparisonDates == {"", "2025-01-01"}

Intents == {"Knowledge", "Data", "Investigation", "Monitoring", "CodeAnalysis", "Comparison"}

Agents == {"VectorDB_Agent", "Splunk_Agent", "Database_Agent", "DebugAPI_Agent",
           "Monitoring_Agent", "Code_Agent", "Comparison_Agent",
           "Order_Enricher_Agent", "Summarization_Agent"}

\* workflow.py:51  node_name = agent_name.lower().replace("_", "")
NodeName(agent) ==
    CASE agent = "VectorDB_Agent" -> "vectordbagent"
      [] agent = "Splunk_Agent" -> "splunkagent"
      [] agent = "Database_Agent" -> "databaseagent"
      [] agent = "DebugAPI_Agent" -> "debugapiagent"
      [] agent = "Monitoring_Agent" -> "monitoringagent"
      [] agent = "Code_Agent" -> "codeagent"
      [] agent = "Comparison_Agent" -> "comparisonagent"
      [] agent = "Order_Enricher_Agent" -> "orderenricheragent"
      [] agent = "Summarization_Agent" -> "summarizationagent"

TransientErrors == {"ConnectionError", "TimeoutError"}
ErrorKinds == {"ConnectionError", "TimeoutError", "ValueError"}
LLMTexts == {"llm-a", "llm-b"}
DefaultLLMText == "llm-a"

Text(kind, id) == [kind |-> kind, id |-> id]
EmptyText == Text("", <<>>)

(***************************************************************************)
(* query_parameter.py                                                      *)
(***************************************************************************)
QueryParameters(intent, order_id, date, comparison_order_id, comparison_date, reasoning) ==
    [intent |-> intent, order_id |-> order_id, date |-> date,
     comparison_order_id |-> comparison_order_id,
     comparison_date |-> comparison_date, reasoning |-> reasoning]

ensure_dates_set(p) ==
    LET p1 == IF p.intent \in {"Investigation", "Data"} /\ p.order_id # <<>> /\ p.date = ""
              THEN [p EXCEPT !.date = CurrentDate] ELSE p
        p2 == IF p1.intent = "Comparison" /\ p1.order_id # <<>> /\ p1.date = ""
              THEN [p1 EXCEPT !.date = CurrentDate] ELSE p1
        p3 == IF p2.intent = "Comparison" /\ p2.comparison_order_id # <<>>
                 /\ p2.comparison_date = ""
              THEN [p2 EXCEPT !.comparison_date = CurrentDate] ELSE p2
    IN p3

\* what a user may ask: the classifier extracts these fields from the query text
Queries ==
    {q \in [intent : Intents, order_id : OrderIds, date : PrimaryDates,
            comparison_order_id : OrderIds, comparison_date : ComparisonDates] :
        q.intent # "Comparison" => (q.comparison_order_id = <<>> /\ q.comparison_date = "")}

(***************************************************************************)
(* order_enricher_agent.py: pure helpers                                   *)
(***************************************************************************)
\* order_id.replace(".", "", 1): only the first dot removed
RECURSIVE clean_order_id_FirstDotOnly(_)
clean_order_id_FirstDotOnly(order_id) ==
    IF order_id = <<>> THEN <<>>
    ELSE IF Head(order_id) = "." THEN Tail(order_id)
    ELSE <<Head(order_id)>> \o clean_order_id_FirstDotOnly(Tail(order_id))

clean_order_id(order_id) == SelectSeq(order_id, LAMBDA c : c # ".")

\* validate_order_format without the test of the length
validate_order_format_NoLengthTest(order_id) ==
    IF order_id = <<>> THEN [valid |-> FALSE, msg |-> "Order ID is empty"]
    ELSE IF order_id[1] # "D" THEN [valid |-> FALSE, msg |-> "Order ID must start with 'D'"]
    ELSE [valid |-> TRUE, msg |-> ""]

validate_order_format(order_id) ==
    IF order_id = <<>> THEN [valid |-> FALSE, msg |-> "Order ID is empty"]
    ELSE IF order_id[1] # "D" THEN [valid |-> FALSE, msg |-> "Order ID must start with 'D'"]
    ELSE IF Len(order_id) # EnrichedLen
         THEN [valid |-> FALSE, msg |-> "Order ID must be 9 characters"]
    ELSE [valid |-> TRUE, msg |-> ""]

\* database_agent.py:42  f"ORD{aaa_order_id[1:]}"
lookup_actual_order_id(aaa_order_id) == <<"O", "R", "D">> \o Tail(aaa_order_id)

(***************************************************************************)
(* workflow.py: needs_enrichment                                           *)
(***************************************************************************)
\* needs_enrichment without the test of the length
needs_enrichment_AnyLength(order_id) ==
    IF ~Truthy(order_id) THEN FALSE
    ELSE LET clean_id == SelectSeq(order_id, LAMBDA c : c # ".")
         IN  Len(clean_id) > 0 /\ clean_id[1] = "D"

needs_enrichment(order_id) ==
    IF ~Truthy(order_id) THEN FALSE
    ELSE LET clean_id == SelectSeq(order_id, LAMBDA c : c # ".")
         IN  Len(clean_id) > 0 /\ clean_id[1] = "D" /\ Len(clean_id) = EnrichedLen

(***************************************************************************)
(* state.py: reducers of the AgentState channels                           *)
(***************************************************************************)
\* a reducer that replaces the whole dict by the update
update_dict_RightOnly(left, right) == right

update_dict(left, right) ==
    [k \in (DOMAIN left) \cup (DOMAIN right) |->
        IF k \in DOMAIN right THEN right[k] ELSE left[k]]

replace_value(left, right) == right

\* operator.add on lists (messages, error_log)
operator_add(left, right) == left \o right

EmptyDict == [a \in {} |-> EmptyText]

NoAnswer == [kind |-> "", lines |-> EmptyDict]

\* routes.py:42 / chatbot.py:50  create_initial_state
create_initial_state(query) ==
    [messages |-> <<>>,
     user_query |-> query,
     parameters |-> QueryParameters("Investigation", <<>>, "", <<>>, "", "Initial state"),
     investigation_step |-> 0,
     findings |-> EmptyDict,
     comparison_findings |-> EmptyDict,
     final_answer |-> NoAnswer,
     sender |-> "",
     current_investigation |-> "primary",
     error_log |-> <<>>,
     aaa_order_id |-> None,
     enrichment_flow |-> FALSE,
     actual_order_id |-> None,
     comparison_aaa_order_id |-> None,
     comparison_enrichment_flow |-> FALSE,
     comparison_actual_order_id |-> None]

(***************************************************************************)
(* base_agent.py: SimpleCache.  The cache maps a key to (value, timestamp). *)
(***************************************************************************)
\* get with `<=` in the place of `<` in the test of the age
SimpleCache_get_InclusiveTtl(cache, key, ttl_minutes) ==
    IF key \in DOMAIN cache
    THEN IF now - cache[key].timestamp <= ttl_minutes
         THEN [found |-> TRUE, value |-> cache[key].value, cache |-> cache]
         ELSE [found |-> FALSE, value |-> cache[key].value,
               cache |-> [k \in (DOMAIN cache) \ {key} |-> cache[k]]]
    ELSE [found |-> FALSE, value |-> [summary |-> EmptyText], cache |-> cache]

SimpleCache_get(cache, key, ttl_minutes) ==
    IF key \in DOMAIN cache
    THEN IF now - cache[key].timestamp < ttl_minutes
         THEN [found |-> TRUE, value |-> cache[key].value, cache |-> cache]
         ELSE [found |-> FALSE, value |-> cache[key].value,
               cache |-> [k \in (DOMAIN cache) \ {key} |-> cache[k]]]
    ELSE [found |-> FALSE, value |-> [summary |-> EmptyText], cache |-> cache]

SimpleCache_set(cache, key, value) ==
    [k \in (DOMAIN cache) \cup {key} |->
        IF k = key THEN [value |-> value, timestamp |-> now] ELSE cache[k]]

(***************************************************************************)
(* base_agent.py: helpers of the execution wrapper                         *)
(***************************************************************************)
_get_investigation_context(s) ==
    LET current_inv == s.current_investigation
        params == s.parameters
        actual_order_id == IF current_inv = "comparison"
                           THEN s.comparison_actual_order_id ELSE s.actual_order_id
        enrichment_flow == IF current_inv = "comparison"
                           THEN s.comparison_enrichment_flow ELSE s.enrichment_flow
        use_actual == Truthy(actual_order_id) /\ ~enrichment_flow
    IN  IF current_inv = "comparison"
        THEN [order_id |-> IF use_actual THEN actual_order_id ELSE params.comparison_order_id,
              date |-> params.comparison_date,
              findings_key |-> "comparison_findings",
              prefix |-> "[COMPARISON ORDER]",
              enriched |-> use_actual]
        ELSE [order_id |-> IF use_actual THEN actual_order_id ELSE params.order_id,
              date |-> params.date,
              findings_key |-> "findings",
              prefix |-> "[PRIMARY ORDER]",
              enriched |-> use_actual]

\* md5 of f"{self.name}_{order_id}_{date}": the key is the triple that is hashed
_get_cache_key(self, order_id, date) == [name |-> self, order_id |-> order_id, date |-> date]

\* the record that _store_findings keeps of a findings dict
FindingRecord(findings, context) ==
    [summary |-> findings.summary,
     analysis |-> findings.analysis,
     order_id |-> context.order_id,
     timestamp |-> now,
     cache_key |-> "None",
     logs_found |-> findings.logs_found,
     enriched |-> context.enriched]

\* _store_findings writing to the primary map whatever the phase
_store_findings_AlwaysPrimary(self, s, findings, context) ==
    [s EXCEPT !.findings = update_dict(@, [k \in {self} |-> FindingRecord(findings, context)])]

\* _store_findings writing no record for the finding of a failed call
_store_findings_SkipsDegraded(self, s, findings, context) ==
    IF findings.summary = EmptyText /\ findings.analysis = EmptyText THEN s
    ELSE IF context.findings_key = "comparison_findings"
    THEN [s EXCEPT !.comparison_findings =
              update_dict(@, [k \in {self} |-> FindingRecord(findings, context)])]
    ELSE [s EXCEPT !.findings =
              update_dict(@, [k \in {self} |-> FindingRecord(findings, context)])]

_store_findings(self, s, findings, context) ==
    IF context.findings_key = "comparison_findings"
    THEN [s EXCEPT !.comparison_findings =
              update_dict(@, [k \in {self} |-> FindingRecord(findings, context)])]
    ELSE [s EXCEPT !.findings =
              update_dict(@, [k \in {self} |-> FindingRecord(findings, context)])]

\* what the raw_data of a result was computed from, beyond the order id
\* and the date of the context: the query text and the findings maps
RawData(queries, findings, comparison_findings) ==
    [query |-> queries, findings |-> findings, comparison_findings |-> comparison_findings]

NoRawData == RawData({}, {}, {})

\* a findings dict as the wrapper sees it: summary, the records-found flag,
\* whether str(findings).lower() contains "error", and the analysis once set
Findings(summary, err, logs_found) ==
    [summary |-> summary, err |-> err, logs_found |-> logs_found, analysis |-> EmptyText,
     raw_data |-> NoRawData]

\* {"error": str(e)}: no summary, no analysis, no logs_found (base_agent.py:338)
ErrorFindings == Findings(EmptyText, TRUE, "None")

\* "error" in str(findings) / settings.enable_reflection; no findings dict of
\* the stub integrations is longer than 5000 characters
_needs_reflection(findings) ==
    IF findings.err THEN TRUE ELSE settings.enable_reflection

_simple_summary(findings) == findings.summary

(***************************************************************************)
(* The workers' core operations (_execute_tool).  Each returns             *)
(*   exc       "none", or the kind of the exception it raised              *)
(*   findings  the findings dict it returned                               *)
(*   s         the state after the in-place updates it made                *)
(*   ids       the order ids it looked up or reported on                   *)
(*   ext_point whether it reached a call that leaves the process (ext is   *)
(*             the outcome of that call: "ok" or an exception kind)        *)
(* The purpose of a call is which branch of the operation ran; for the     *)
(* database worker "lookup" (enrichment mode) or "trade" (normal mode).    *)
(***************************************************************************)
ToolResult(exc, findings, s, ids, ext_point) ==
    [exc |-> exc, findings |-> findings, s |-> s, ids |-> ids, ext_point |-> ext_point]

\* database_agent.py:114  if enrichment_flow: ... else: ...
PurposeOf(self, s) ==
    IF self = "Database_Agent"
    THEN IF (IF s.current_investigation = "comparison"
             THEN s.comparison_enrichment_flow ELSE s.enrichment_flow)
         THEN "lookup" ELSE "trade"
    ELSE "run"

\* the normalize worker storing the cleaned id and setting the active flag
\* also for an id that fails the validation
OrderEnricher_execute_tool_StoresInvalid(context, s, ext) ==
    LET current_inv == s.current_investigation
        params == s.parameters
        order_id == IF current_inv = "comparison"
                    THEN params.comparison_order_id ELSE params.order_id
        cleaned == clean_order_id(order_id)
        check == validate_order_format(cleaned)
    IN  IF order_id = <<>>
        THEN ToolResult("none", Findings(Text("Error: No order ID provided", <<>>), TRUE, "None"),
                        s, {}, FALSE)
        ELSE ToolResult("none",
                        Findings(Text(IF check.valid THEN "Enriched" ELSE "Validation failed",
                                      cleaned), ~check.valid, "None"),
                        IF current_inv = "comparison"
                        THEN [s EXCEPT !.comparison_aaa_order_id = cleaned,
                                       !.comparison_enrichment_flow = TRUE]
                        ELSE [s EXCEPT !.aaa_order_id = cleaned,
                                       !.enrichment_flow = TRUE],
                        {order_id}, FALSE)

\* order_enricher_agent.py:62-151
OrderEnricher_execute_tool(context, s, ext) ==
    LET current_inv == s.current_investigation
        params == s.parameters
        order_id == IF current_inv = "comparison"
                    THEN params.comparison_order_id ELSE params.order_id
        cleaned == clean_order_id(order_id)
        check == validate_order_format(cleaned)
    IN  IF order_id = <<>>
        THEN ToolResult("none", Findings(Text("Error: No order ID provided", <<>>), TRUE, "None"),
                        s, {}, FALSE)
        ELSE IF ~check.valid
        THEN ToolResult("none", Findings(Text("Validation failed", cleaned), TRUE, "None"),
                        s, {order_id}, FALSE)
        ELSE ToolResult("none", Findings(Text("Enriched", cleaned), FALSE, "None"),
                        IF current_inv = "comparison"
                        THEN [s EXCEPT !.comparison_aaa_order_id = cleaned,
                                       !.comparison_enrichment_flow = TRUE]
                        ELSE [s EXCEPT !.aaa_order_id = cleaned,
                                       !.enrichment_flow = TRUE],
                        {order_id}, FALSE)

\* the id lookup storing the resolved id and leaving the active flag set
Database_execute_tool_KeepsActive(context, s, ext) ==
    LET current_inv == s.current_investigation
        enrichment_flow == IF current_inv = "comparison"
                           THEN s.comparison_enrichment_flow ELSE s.enrichment_flow
        aaa_order_id == IF current_inv = "comparison"
                        THEN s.comparison_aaa_order_id ELSE s.aaa_order_id
        actual_order_id == lookup_actual_order_id(aaa_order_id)
        order_id == IF context.order_id # <<>> THEN context.order_id
                    ELSE IF current_inv = "comparison"
                         THEN s.comparison_actual_order_id ELSE s.actual_order_id
    IN  IF enrichment_flow
        THEN IF ~Truthy(aaa_order_id)
             THEN ToolResult("none",
                             Findings(Text("AAA Order ID required for enrichment lookup", <<>>),
                                      TRUE, "None"),
                             s, {}, FALSE)
             ELSE IF ext # "ok"
             THEN ToolResult(ext, ErrorFindings, s, {aaa_order_id}, TRUE)
             ELSE ToolResult("none", Findings(Text("Enriched", actual_order_id), FALSE, "None"),
                             IF current_inv = "comparison"
                             THEN [s EXCEPT !.comparison_actual_order_id = actual_order_id]
                             ELSE [s EXCEPT !.actual_order_id = actual_order_id],
                             {aaa_order_id}, TRUE)
        ELSE IF ~Truthy(order_id)
             THEN ToolResult("none",
                             Findings(Text("Order ID required for database lookup", <<>>),
                                      TRUE, "None"),
                             s, {}, FALSE)
             ELSE IF ext # "ok"
             THEN ToolResult(ext, ErrorFindings, s, {order_id}, TRUE)
             ELSE ToolResult("none",
                             Findings(Text("Database records retrieved", order_id), FALSE, "None"),
                             s, {order_id}, TRUE)

\* database_agent.py:90-186
Database_execute_tool(context, s, ext) ==
    LET current_inv == s.current_investigation
        enrichment_flow == IF current_inv = "comparison"
                           THEN s.comparison_enrichment_flow ELSE s.enrichment_flow
        aaa_order_id == IF current_inv = "comparison"
                        THEN s.comparison_aaa_order_id ELSE s.aaa_order_id
        actual_order_id == lookup_actual_order_id(aaa_order_id)
        order_id == IF context.order_id # <<>> THEN context.order_id
                    ELSE IF current_inv = "comparison"
                         THEN s.comparison_actual_order_id ELSE s.actual_order_id
    IN  IF enrichment_flow
        THEN IF ~Truthy(aaa_order_id)
             THEN ToolResult("none",
                             Findings(Text("AAA Order ID required for enrichment lookup", <<>>),
                                      TRUE, "None"),
                             s, {}, FALSE)
             ELSE IF ext # "ok"
             THEN ToolResult(ext, ErrorFindings, s, {aaa_order_id}, TRUE)
             ELSE ToolResult("none", Findings(Text("Enriched", actual_order_id), FALSE, "None"),
                             IF current_inv = "comparison"
                             THEN [s EXCEPT !.comparison_actual_order_id = actual_order_id,
                                            !.comparison_enrichment_flow = FALSE]
                             ELSE [s EXCEPT !.actual_order_id = actual_order_id,
                                            !.enrichment_flow = FALSE],
                             {aaa_order_id}, TRUE)
        ELSE IF ~Truthy(order_id)
             THEN ToolResult("none",
                             Findings(Text("Order ID required for database lookup", <<>>),
                                      TRUE, "None"),
                             s, {}, FALSE)
             ELSE IF ext # "ok"
             THEN ToolResult(ext, ErrorFindings, s, {order_id}, TRUE)
             ELSE ToolResult("none",
                             Findings(Text("Database records retrieved", order_id), FALSE, "None"),
                             s, {order_id}, TRUE)

\* splunk_agent.py:37-107: every branch of the stub sets logs_found = True;
\* the text for an empty order id reads "No errors in last hour"
search_logs(order_id, date) ==
    [logs_found |-> "True", error_in_text |-> (order_id = <<>>)]

\* splunk_agent.py:109-159
Splunk_execute_tool(context, s, ext) ==
    LET actual_order_id == s.actual_order_id
        order_id == IF Truthy(actual_order_id) THEN actual_order_id ELSE context.order_id
        result == search_logs(order_id, context.date)
    IN  ToolResult("none",
                   Findings(Text("Logs found", order_id), result.error_in_text,
                            result.logs_found),
                   s, {order_id}, FALSE)

\* the differencing worker emptying the primary findings map it has read
Comparison_execute_tool_ConsumesFindings(context, s, ext) ==
    IF s.findings = EmptyDict \/ s.comparison_findings = EmptyDict
    THEN ToolResult("none",
                    Findings(Text("Cannot perform comparison", <<>>), TRUE, "None"),
                    s, {}, FALSE)
    ELSE ToolResult("none",
                    Findings(Text(IF ext # "ok" THEN "Fallback comparison"
                                  ELSE "Structured comparison", <<>>),
                             ext # "ok", "None"),
                    [s EXCEPT !.findings = EmptyDict],
                    {context.order_id, s.parameters.comparison_order_id}, TRUE)

\* comparison_agent.py:77-164: the structured LLM call is inside try/except;
\* when it raises, the fallback comparison is returned
Comparison_execute_tool(context, s, ext) ==
    LET params == s.parameters
        primary_order_id == context.order_id
        comparison_order_id == params.comparison_order_id
    IN  IF s.findings = EmptyDict \/ s.comparison_findings = EmptyDict
        THEN ToolResult("none",
                        Findings(Text("Cannot perform comparison", <<>>), TRUE, "None"),
                        s, {}, FALSE)
        ELSE IF ext # "ok"
        THEN ToolResult("none",
                        [Findings(Text("Fallback comparison", <<>>), TRUE, "None")
                            EXCEPT !.raw_data = RawData({}, {s.findings},
                                                        {s.comparison_findings})],
                        s, {primary_order_id, comparison_order_id}, TRUE)
        ELSE ToolResult("none",
                        [Findings(Text("Structured comparison", <<>>), FALSE, "None")
                            EXCEPT !.raw_data = RawData({s.user_query}, {s.findings},
                                                        {s.comparison_findings})],
                        s, {primary_order_id, comparison_order_id}, TRUE)

\* summarization_agent.py:344-421: the insight LLM call is made when
\* _needs_reflection(full_summary); the returned dict has a key_findings
\* entry whose "errors" key makes str(findings) contain "error"; raw_data is
\* the full_summary, built from the query and the primary findings map
Summarization_execute_tool(context, s, ext) ==
    IF settings.enable_reflection
    THEN IF ext # "ok"
         THEN ToolResult(ext, ErrorFindings, s, {}, TRUE)
         ELSE ToolResult("none",
                         [Findings(Text("Comprehensive summary generated", <<>>), TRUE, "None")
                             EXCEPT !.raw_data = RawData({s.user_query}, {s.findings}, {})],
                         s, {}, TRUE)
    ELSE ToolResult("none",
                    [Findings(Text("Comprehensive summary generated", <<>>), TRUE, "None")
                        EXCEPT !.raw_data = RawData({s.user_query}, {s.findings}, {})],
                    s, {}, FALSE)

\* VectorDB, DebugAPI, Monitoring and Code workers: integrations that are
\* called with the context's order id and either return a summary or raise;
\* the knowledge worker answers the query text
External_execute_tool(self, context, s, ext) ==
    IF ext # "ok"
    THEN ToolResult(ext, ErrorFindings, s, {context.order_id}, TRUE)
    ELSE ToolResult("none",
                    [Findings(Text(self, context.order_id), FALSE, "None")
                        EXCEPT !.raw_data = IF self = "VectorDB_Agent"
                                            THEN RawData({s.user_query}, {}, {})
                                            ELSE NoRawData],
                    s, {context.order_id}, TRUE)

_execute_tool(self, context, s, ext) ==
    CASE self = "Order_Enricher_Agent" -> OrderEnricher_execute_tool(context, s, ext)
      [] self = "Database_Agent" -> Database_execute_tool(context, s, ext)
      [] self = "Splunk_Agent" -> Splunk_execute_tool(context, s, ext)
      [] self = "Comparison_Agent" -> Comparison_execute_tool(context, s, ext)
      [] self = "Summarization_Agent" -> Summarization_execute_tool(context, s, ext)
      [] OTHER -> External_execute_tool(self, context, s, ext)

(***************************************************************************)
(* base_agent.py:255-340  BaseAgent.execute under the tenacity decorator   *)
(***************************************************************************)
\* `except (ConnectionError, TimeoutError)` in the place of `except Exception`
CaughtByExcept_TransientOnly(exc) == exc \in TransientErrors

\* `except Exception` (base_agent.py:321) handles whatever the body raises,
\* so no exception of the body reaches the decorator
CaughtByExcept(exc) == TRUE

\* retry_if_exception_type((ConnectionError, TimeoutError)),
\* stop_after_attempt(settings.max_retries): the number of times the
\* decorator runs the body when the core operation raises exc every time
RECURSIVE RetryAttempts(_, _)
RetryAttempts(exc, attempt) ==
    IF exc # "none" /\ ~CaughtByExcept(exc) /\ exc \in TransientErrors /\ attempt < max_retries
    THEN RetryAttempts(exc, attempt + 1)
    ELSE attempt

\* env.ext: outcome of the core operation's external call ("ok" or an
\* exception kind); env.llm: outcome of the reflection LLM call (a text or
\* an exception kind)
Envs == [ext : {"ok"} \cup ErrorKinds, llm : LLMTexts \cup ErrorKinds]

\* the one element of a singleton set; {e(x) : x \in {v}} names v once
Only(S) == CHOOSE x \in S : TRUE

\* base_agent.py:287-301: the cache check; tool is what the wrapper goes on
\* with, the cached dict or the result of the core operation
CacheCheck(self, s0, cache0, env, context) ==
    LET cache_key == _get_cache_key(self, context.order_id, context.date)
        got == SimpleCache_get(cache0, cache_key, cache_ttl_minutes)
        hit == settings.enable_caching /\ got.found
    IN  [cache_key |-> cache_key, hit |-> hit, cache |-> got.cache,
         tool |-> IF hit
                  THEN ToolResult("none", got.value, s0, {}, FALSE)
                  ELSE _execute_tool(self, context, s0, env.ext)]

\* base_agent.py:296-340: from the CACHE.set after the core operation to
\* the return
AfterTool(self, s0, cache0, env, context, cc) ==
    LET caching == settings.enable_caching
        cache_key == cc.cache_key
        hit == cc.hit
        tool == cc.tool
        cache1 == IF ~caching THEN cache0
                  ELSE IF hit \/ tool.exc # "none" THEN cc.cache
                  ELSE SimpleCache_set(cc.cache, cache_key, tool.findings)
        reflected == tool.exc = "none" /\ _needs_reflection(tool.findings)
        exc == IF tool.exc # "none" THEN tool.exc
               ELSE IF reflected /\ env.llm \in ErrorKinds THEN env.llm
               ELSE "none"
        analysis == IF reflected THEN Text(env.llm, <<>>) ELSE _simple_summary(tool.findings)
        \* findings["analysis"] = analysis updates the dict the cache holds too
        findings == [tool.findings EXCEPT !.analysis = analysis]
        cache2 == IF caching /\ exc = "none"
                  THEN [cache1 EXCEPT ![cache_key].value = findings]
                  ELSE cache1
        s1 == IF exc = "none"
              THEN [_store_findings(self, tool.s, findings, context)
                        EXCEPT !.messages = Append(@, self)]
              ELSE [_store_findings(self, tool.s, ErrorFindings, context)
                        EXCEPT !.messages = Append(@, self),
                               !.error_log = Append(@, <<self, exc>>)]
        attempts == RetryAttempts(exc, 1)
    IN  [s |-> s1,
         cache |-> cache2,
         used_ext |-> tool.ext_point,
         used_llm |-> reflected,
         call |-> [agent |-> self,
                   phase |-> s0.current_investigation,
                   order_id |-> context.order_id,
                   date |-> context.date,
                   cache_key |-> cache_key,
                   hit |-> hit,
                   attempts |-> attempts,
                   tool_calls |-> IF hit THEN 0 ELSE attempts,
                   tool_exc |-> tool.exc,
                   purpose |-> PurposeOf(self, s0),
                   errors_logged |-> IF exc = "none" THEN 0 ELSE 1,
                   reflected |-> reflected,
                   exc |-> exc,
                   raised |-> exc # "none" /\ ~CaughtByExcept(exc),
                   ids |-> tool.ids,
                   stored |-> FindingRecord(IF exc = "none" THEN findings ELSE ErrorFindings,
                                            context),
                   resolved_before |-> IF s0.current_investigation = "comparison"
                                       THEN s0.comparison_actual_order_id
                                       ELSE s0.actual_order_id,
                   active_before |-> IF s0.current_investigation = "comparison"
                                     THEN s0.comparison_enrichment_flow
                                     ELSE s0.enrichment_flow,
                   time |-> now]]

execute(self, s0, cache0, env) ==
    Only({Only({AfterTool(self, s0, cache0, env, context, cc) :
                    cc \in {CacheCheck(self, s0, cache0, env, context)}}) :
              context \in {_get_investigation_context(s0)}})

(***************************************************************************)
(* workflow.py: routing functions of create_supervisor_graph               *)
(***************************************************************************)
\* workflow.py:121-129: the most recent message whose name is not
\* "Supervisor"; the sender field when there is none
RECURSIVE LastNonSupervisor(_, _)
LastNonSupervisor(messages, i) ==
    IF i = 0 THEN ""
    ELSE IF messages[i] # "" /\ messages[i] # "Supervisor" THEN messages[i]
    ELSE LastNonSupervisor(messages, i - 1)

\* the router trusting the stored sender field
SenderOf_StoredField(s) == s.sender

SenderOf(s) ==
    LET fromMessages == LastNonSupervisor(s.messages, Len(s.messages))
    IN  IF fromMessages # "" THEN fromMessages ELSE s.sender

\* messages[-5:] as the set of the names in it
recent_agents(messages) ==
    {messages[i] : i \in {j \in 1..Len(messages) : j > Len(messages) - RecentWindow}}

\* state.get(findings_key, {}).get("Splunk_Agent", {}).get("logs_found", False)
logs_found_of(findings) ==
    IF "Splunk_Agent" \in DOMAIN findings
    THEN findings["Splunk_Agent"].logs_found = "True"
    ELSE FALSE

\* route_from_supervisor taking a monitoring query straight to synthesis
route_from_supervisor_MonitoringToSynthesis(s) ==
    LET params == s.parameters
        intent == params.intent
        order_id == params.order_id
    IN  IF intent = "" \/ intent = "Monitoring" THEN "synthesize"
        ELSE IF intent \in {"Investigation", "Comparison", "Data"}
                /\ order_id # <<>> /\ needs_enrichment(order_id)
        THEN "orderenricheragent"
        ELSE IF intent = "Knowledge" THEN "vectordbagent"
        ELSE IF intent = "CodeAnalysis"
             THEN (IF order_id = <<>> THEN "codeagent" ELSE "databaseagent")
        ELSE "splunkagent"

\* route_from_supervisor without the test `if not params`
route_from_supervisor_NoParamsCheck(s) ==
    LET params == s.parameters
        intent == params.intent
        order_id == params.order_id
    IN  IF intent \in {"Investigation", "Comparison", "Data"}
           /\ order_id # <<>> /\ needs_enrichment(order_id)
        THEN "orderenricheragent"
        ELSE IF intent = "Knowledge" THEN "vectordbagent"
        ELSE IF intent = "Data" THEN "splunkagent"
        ELSE IF intent = "Monitoring" THEN "monitoringagent"
        ELSE IF intent = "CodeAnalysis"
             THEN (IF order_id = <<>> THEN "codeagent" ELSE "databaseagent")
        ELSE "splunkagent"

\* workflow.py:72-109
route_from_supervisor(s) ==
    LET params == s.parameters
        intent == params.intent
        order_id == params.order_id
    IN  IF intent = "" THEN "synthesize"
        ELSE IF intent \in {"Investigation", "Comparison", "Data"}
                /\ order_id # <<>> /\ needs_enrichment(order_id)
        THEN "orderenricheragent"
        ELSE IF intent = "Knowledge" THEN "vectordbagent"
        ELSE IF intent = "Data" THEN "splunkagent"
        ELSE IF intent = "Monitoring" THEN "monitoringagent"
        ELSE IF intent = "CodeAnalysis"
             THEN (IF order_id = <<>> THEN "codeagent" ELSE "databaseagent")
        ELSE "splunkagent"

\* the Database_Agent branch without the look at the recent transcript
AfterDatabase_NoRecentCheck(s, enrichment_completed, enrichment_active) ==
    IF enrichment_completed /\ ~enrichment_active THEN "splunkagent"
    ELSE "debugapiagent"

\* the Database_Agent branch giving up the chain once an error was logged
AfterDatabase_ReadsErrorLog(s, enrichment_completed, enrichment_active) ==
    IF s.error_log # <<>> THEN "summarizationagent"
    ELSE IF "Splunk_Agent" \in recent_agents(s.messages) THEN "debugapiagent"
    ELSE IF enrichment_completed /\ ~enrichment_active THEN "splunkagent"
    ELSE "debugapiagent"

\* workflow.py:190-209, 237-256, 288-308: the Database_Agent branch
AfterDatabase(s, enrichment_completed, enrichment_active) ==
    IF "Splunk_Agent" \in recent_agents(s.messages) THEN "debugapiagent"
    ELSE IF enrichment_completed /\ ~enrichment_active THEN "splunkagent"
    ELSE "debugapiagent"

\* leaving the primary phase by normalizing again, without the phase switch
LeavePrimary_NormalizesAgain(s) ==
    IF s.parameters.comparison_order_id # <<>>
       /\ needs_enrichment(s.parameters.comparison_order_id)
    THEN "orderenricheragent"
    ELSE "switch_to_comparison"

\* workflow.py:176-184, 213-220: leaving the primary phase
LeavePrimary(s) ==
    IF s.parameters.comparison_order_id # <<>>
       /\ needs_enrichment(s.parameters.comparison_order_id)
    THEN "switch_to_comparison_enricher"
    ELSE "switch_to_comparison"

\* workflow.py:115-315
route_next_agent(s) ==
    LET sender == SenderOf(s)
        params == s.parameters
        intent == IF params.intent = "" THEN "Investigation" ELSE params.intent
        current_inv == s.current_investigation
    IN  IF sender = "Summarization_Agent" THEN "synthesize"
        ELSE IF intent \in {"Knowledge", "Data", "Monitoring"} THEN "summarizationagent"
        ELSE IF intent = "CodeAnalysis"
        THEN (IF sender = "Database_Agent" THEN "codeagent" ELSE "summarizationagent")
        ELSE IF intent = "Comparison" /\ current_inv = "primary" /\ sender = "Splunk_Agent"
        THEN LeavePrimary(s)
        ELSE IF intent = "Comparison" /\ current_inv = "primary"
                /\ sender = "Order_Enricher_Agent"
        THEN "databaseagent"
        ELSE IF intent = "Comparison" /\ current_inv = "primary" /\ sender = "Database_Agent"
        THEN AfterDatabase(s, s.actual_order_id # None, s.enrichment_flow)
        ELSE IF intent = "Comparison" /\ current_inv = "primary" /\ sender = "DebugAPI_Agent"
        THEN LeavePrimary(s)
        ELSE IF intent = "Comparison" /\ current_inv = "comparison" /\ sender = "Splunk_Agent"
        THEN "comparisonagent"
        ELSE IF intent = "Comparison" /\ current_inv = "comparison"
                /\ sender = "Order_Enricher_Agent"
        THEN "databaseagent"
        ELSE IF intent = "Comparison" /\ current_inv = "comparison"
                /\ sender = "Database_Agent"
        THEN AfterDatabase(s, s.comparison_actual_order_id # None,
                           s.comparison_enrichment_flow)
        ELSE IF intent = "Comparison" /\ current_inv = "comparison"
                /\ sender = "DebugAPI_Agent"
        THEN "comparisonagent"
        ELSE IF intent = "Comparison" /\ sender = "Comparison_Agent"
        THEN "summarizationagent"
        ELSE IF intent = "Investigation" /\ sender = "Order_Enricher_Agent"
        THEN "databaseagent"
        ELSE IF intent = "Investigation" /\ sender = "Splunk_Agent"
        THEN (IF logs_found_of(s.findings) THEN "summarizationagent" ELSE "databaseagent")
        ELSE IF intent = "Investigation" /\ sender = "Database_Agent"
        THEN AfterDatabase(s, s.actual_order_id # None, s.enrichment_flow)
        ELSE IF intent = "Investigation" /\ sender = "DebugAPI_Agent"
        THEN "summarizationagent"
        ELSE "summarizationagent"

\* workflow.py:338-356
db_router(s) ==
    IF SenderOf(s) = "Order_Enricher_Agent" THEN "splunkagent" ELSE route_next_agent(s)

\* workflow.py:321-330, 358-389: the path maps of the conditional edges; a
\* routing result that is not a key of the map aborts the run
SupervisorTargets ==
    {"vectordbagent", "splunkagent", "databaseagent", "debugapiagent", "monitoringagent",
     "codeagent", "orderenricheragent", "synthesize"}

DatabaseTargets ==
    {"splunkagent", "databaseagent", "debugapiagent", "codeagent", "comparisonagent",
     "summarizationagent", "synthesize", "switch_to_comparison",
     "switch_to_comparison_enricher"}

AgentTargets == DatabaseTargets \cup {"orderenricheragent"}

Follow(target, targets) == IF target \in targets THEN target ELSE "ABORT"

\* workflow.py:333-389: the conditional edge of a worker node
edge_after(agent, s) ==
    IF agent = "Database_Agent" THEN Follow(db_router(s), DatabaseTargets)
    ELSE Follow(route_next_agent(s), AgentTargets)

(***************************************************************************)
(* The graph: nodes, and how LangGraph applies what a node returns.        *)
(***************************************************************************)
\* workflow.py:53-59 (make_node), supervisor_agent.py:151: the node mutates
\* the state it was given and returns it whole, so every channel receives
\* its own (already updated) value as the update and applies its reducer
ReturnWholeState(s) ==
    [s EXCEPT !.messages = operator_add(s.messages, s.messages),
              !.error_log = operator_add(s.error_log, s.error_log),
              !.findings = update_dict(s.findings, s.findings),
              !.comparison_findings = update_dict(s.comparison_findings,
                                                  s.comparison_findings)]

\* the tuple the router is specified over, read from a state
RouterTuple(s) ==
    LET comparison == s.current_investigation = "comparison"
    IN  [sender |-> SenderOf(s),
         intent |-> s.parameters.intent,
         phase |-> s.current_investigation,
         records_found |-> logs_found_of(IF comparison THEN s.comparison_findings
                                         ELSE s.findings),
         completed |-> IF comparison THEN s.comparison_actual_order_id # None
                       ELSE s.actual_order_id # None,
         active |-> IF comparison THEN s.comparison_enrichment_flow
                    ELSE s.enrichment_flow]

Init ==
    /\ settings \in [enable_caching : BOOLEAN, enable_reflection : BOOLEAN]
    /\ state \in {create_initial_state(q) : q \in Queries}
    /\ CACHE = [k \in {} |-> [value |-> ErrorFindings, timestamp |-> 0]]
    /\ now = 0
    /\ pc = "supervisor"
    /\ calls = <<>>
    /\ decisions = {}
    /\ deviations = 0

\* analyze_query whose except branch returns no parameters update
analyze_query_KeepsInitialOnFailure(s, classified) ==
    LET q == s.user_query
    IN  IF classified
        THEN [s EXCEPT !.parameters =
                           ensure_dates_set(QueryParameters(q.intent, q.order_id, q.date,
                               q.comparison_order_id, q.comparison_date, "classified")),
                       !.messages = operator_add(@, <<"Supervisor">>)]
        ELSE [s EXCEPT !.messages = operator_add(@, <<>>)]

\* supervisor_agent.py:45-120 followed by the conditional edge
\* route_from_supervisor; classified = FALSE is the except branch
analyze_query(s, classified) ==
    LET q == s.user_query
    IN  IF classified
        THEN [s EXCEPT !.parameters =
                           ensure_dates_set(QueryParameters(q.intent, q.order_id, q.date,
                               q.comparison_order_id, q.comparison_date, "classified")),
                       !.messages = operator_add(@, <<"Supervisor">>)]
        ELSE [s EXCEPT !.parameters =
                           QueryParameters("Knowledge", <<>>, CurrentDate, <<>>, "",
                                           "Fallback due to error"),
                       !.messages = operator_add(@, <<>>)]

SupervisorNode ==
    /\ pc = "supervisor"
    /\ \E classified \in BOOLEAN :
          /\ ~classified => deviations < MaxDeviations
          /\ deviations' = IF classified THEN deviations ELSE deviations + 1
          /\ state' = analyze_query(state, classified)
    /\ pc' = Follow(route_from_supervisor(state'), SupervisorTargets)
    /\ UNCHANGED <<CACHE, settings, now, calls, decisions>>

\* what the environment may do during one call of a worker: an outcome
\* other than the default one needs the call to reach the point where the
\* outcome is drawn, and uses up one of the run's deviations
Cost(env) ==
    (IF env.ext # "ok" THEN 1 ELSE 0) + (IF env.llm # DefaultLLMText THEN 1 ELSE 0)

Admissible(env, r) ==
    /\ env.ext # "ok" => r.used_ext
    /\ env.llm # DefaultLLMText => r.used_llm
    /\ deviations + Cost(env) <= MaxDeviations

\* a worker node (make_node) followed by its conditional edge; an exception
\* that leaves execute leaves the node and ends the run of the graph
AgentNode(agent) ==
    /\ pc = NodeName(agent)
    /\ \E env \in Envs :
       \E r \in {execute(agent, state, CACHE, env)} :
       \E merged \in {ReturnWholeState(r.s)} :
          /\ Admissible(env, r)
          /\ deviations' = deviations + Cost(env)
          /\ state' = merged
          /\ CACHE' = r.cache
          /\ pc' = IF r.call.raised THEN "ABORT" ELSE edge_after(agent, merged)
          /\ calls' = Append(calls, r.call)
          /\ decisions' = decisions \cup
                {[tuple |-> RouterTuple(merged),
                  splunk_recent |-> "Splunk_Agent" \in recent_agents(merged.messages),
                  comparison_enriches |-> needs_enrichment(
                                              merged.parameters.comparison_order_id),
                  next |-> route_next_agent(merged)]}
    /\ UNCHANGED <<settings, now>>

\* workflow.py:22-30, 46
switch_to_comparison ==
    /\ pc = "switch_to_comparison"
    /\ state' = [state EXCEPT !.current_investigation = "comparison",
                              !.investigation_step = 0,
                              !.messages = operator_add(@, state.messages)]
    /\ pc' = "splunkagent"
    /\ UNCHANGED <<CACHE, settings, now, calls, decisions, deviations>>

\* switch_to_comparison_enricher starting the comparison phase from the
\* initial enrichment fields of both phases
switch_to_comparison_enricher_ResetsAll ==
    /\ pc = "switch_to_comparison_enricher"
    /\ state' = [state EXCEPT !.current_investigation = "comparison",
                              !.investigation_step = 0,
                              !.messages = operator_add(@, state.messages),
                              !.aaa_order_id = None,
                              !.enrichment_flow = FALSE,
                              !.actual_order_id = None]
    /\ pc' = "orderenricheragent"
    /\ UNCHANGED <<CACHE, settings, now, calls, decisions, deviations>>

\* workflow.py:32-40, 47
switch_to_comparison_enricher ==
    /\ pc = "switch_to_comparison_enricher"
    /\ state' = [state EXCEPT !.current_investigation = "comparison",
                              !.investigation_step = 0,
                              !.messages = operator_add(@, state.messages)]
    /\ pc' = "orderenricheragent"
    /\ UNCHANGED <<CACHE, settings, now, calls, decisions, deviations>>

\* supervisor_agent.py:153-161
_simple_synthesis(s) ==
    [kind |-> IF DOMAIN s.findings = {} THEN "No findings available" ELSE "simple",
     lines |-> [a \in DOMAIN s.findings |-> s.findings[a].summary]]

\* synthesize_findings with summarization_data.get("full_summary", "") in
\* the place of the three branches
synthesize_findings_NoFallback(s) ==
    [s EXCEPT !.final_answer = [kind |-> "", lines |-> EmptyDict],
              !.messages = Append(@, "Supervisor")]

\* supervisor_agent.py:122-151: a stored finding has neither a full_summary
\* nor a raw_data key (FindingRecord), so the first two branches test keys
\* that _store_findings never writes
synthesize_findings(s) ==
    LET summarization_data == IF "Summarization_Agent" \in DOMAIN s.findings
                              THEN {s.findings["Summarization_Agent"]} ELSE {}
        final_answer ==
            IF \E d \in summarization_data : "full_summary" \in DOMAIN d
            THEN [kind |-> "full_summary", lines |-> EmptyDict]
            ELSE IF \E d \in summarization_data : "raw_data" \in DOMAIN d
            THEN [kind |-> "raw_data", lines |-> EmptyDict]
            ELSE _simple_synthesis(s)
    IN  [s EXCEPT !.final_answer = final_answer,
                  !.messages = Append(@, "Supervisor")]

\* the synthesize node and its edge to END (workflow.py:19, 391)
SynthesizeNode ==
    /\ pc = "synthesize"
    /\ state' = ReturnWholeState(synthesize_findings(state))
    /\ pc' = "END"
    /\ UNCHANGED <<CACHE, settings, now, calls, decisions, deviations>>

\* time passes (datetime.now() in SimpleCache and _store_findings); the clock
\* is read relative to the timestamps of cache entries only, so it is left
\* at 0 until the first entry exists
Tick ==
    /\ pc # "END"
    /\ settings.enable_caching
    /\ DOMAIN CACHE # {}
    /\ deviations < MaxDeviations
    /\ deviations' = deviations + 1
    /\ now' = now + 1
    /\ UNCHANGED <<state, CACHE, settings, pc, calls, decisions>>

Next ==
    \/ SupervisorNode
    \/ \E agent \in Agents : AgentNode(agent)
    \/ switch_to_comparison
    \/ switch_to_comparison_enricher
    \/ SynthesizeNode
    \/ Tick

Spec == Init /\ [][Next]_vars

\* LangGraph runs the node the last edge selected until END is reached
\* (compiled graph, workflow.py:393): a node that is selected is eventually
\* executed; the clock is under no such obligation
Step ==
    \/ SupervisorNode
    \/ \E agent \in Agents : AgentNode(agent)
    \/ switch_to_comparison
    \/ switch_to_comparison_enricher
    \/ SynthesizeNode

FairSpec == Init /\ [][Next]_vars /\ WF_vars(Step)

(***************************************************************************)
(* Single-order investigations over the id inputs: the classifier returns  *)
(* an Investigation of any id of IdInputs, and every external call and LLM *)
(* call answers in the default way (no deviation is left to the run).      *)
(***************************************************************************)
IdQueries ==
    {[intent |-> "Investigation", order_id |-> x, date |-> "",
      comparison_order_id |-> <<>>, comparison_date |-> ""] : x \in IdInputs}

IdInit ==
    /\ settings \in [enable_caching : {FALSE}, enable_reflection : BOOLEAN]
    /\ state \in {create_initial_state(q) : q \in IdQueries}
    /\ CACHE = [k \in {} |-> [value |-> ErrorFindings, timestamp |-> 0]]
    /\ now = 0
    /\ pc = "supervisor"
    /\ calls = <<>>
    /\ decisions = {}
    /\ deviations = MaxDeviations

IdNext ==
    \/ SupervisorNode
    \/ \E agent \in Agents : AgentNode(agent)
    \/ SynthesizeNode

IdSpec == IdInit /\ [][IdNext]_vars

(***************************************************************************)
(* The graph from the conditional edge of the supervisor node on, for every *)
(* value of the parameters channel that edge provides for: a classified    *)
(* parameter set, or none (workflow.py:74-76 `if not params`).  Every      *)
(* external call and LLM call answers in the default way.                  *)
(***************************************************************************)
\* state.get("parameters") is falsy: the intent "" stands for it, as in
\* route_from_supervisor and route_next_agent
NoParameters == QueryParameters("", <<>>, "", <<>>, "", "")

EntryInit ==
    /\ settings \in [enable_caching : BOOLEAN, enable_reflection : BOOLEAN]
    /\ state \in {analyze_query(create_initial_state(q), TRUE) : q \in Queries}
                 \cup {[create_initial_state(q) EXCEPT !.parameters = NoParameters] :
                          q \in Queries}
    /\ CACHE = [k \in {} |-> [value |-> ErrorFindings, timestamp |-> 0]]
    /\ now = 0
    /\ pc = "route_from_supervisor"
    /\ calls = <<>>
    /\ decisions = {}
    /\ deviations = MaxDeviations

\* workflow.py:321-330: the conditional edge of the supervisor node
EntryRouter ==
    /\ pc = "route_from_supervisor"
    /\ pc' = Follow(route_from_supervisor(state), SupervisorTargets)
    /\ UNCHANGED <<state, CACHE, settings, now, calls, decisions, deviations>>

EntryStep ==
    \/ EntryRouter
    \/ \E agent \in Agents : AgentNode(agent)
    \/ switch_to_comparison
    \/ switch_to_comparison_enricher
    \/ SynthesizeNode

EntrySpec == EntryInit /\ [][EntryStep]_vars /\ WF_vars(EntryStep)

(***************************************************************************)
(* The normalize worker on every id input: a single-order investigation    *)
(* that stands at the orderenricheragent node, whatever the classified id  *)
(* is.  Every external call and LLM call answers in the default way.       *)
(***************************************************************************)
NormalizeInit ==
    /\ settings \in [enable_caching : {FALSE}, enable_reflection : BOOLEAN]
    /\ state \in {analyze_query(create_initial_state(q), TRUE) : q \in IdQueries}
    /\ CACHE = [k \in {} |-> [value |-> ErrorFindings, timestamp |-> 0]]
    /\ now = 0
    /\ pc = "orderenricheragent"
    /\ calls = <<>>
    /\ decisions = {}
    /\ deviations = MaxDeviations

NormalizeStep ==
    \/ \E agent \in Agents : AgentNode(agent)
    \/ SynthesizeNode

NormalizeSpec == NormalizeInit /\ [][NormalizeStep]_vars /\ WF_vars(NormalizeStep)

(***************************************************************************)
(* SimpleCache on its own: get and set on a few keys, in any order, while  *)
(* the clock advances.  calls is the log of the operations.                *)
(***************************************************************************)
MaxOps == 4
MaxClock == 2

CacheKeys ==
    {_get_cache_key("Splunk_Agent", A123, ""), _get_cache_key("Database_Agent", A123, "")}

CacheValues ==
    {Findings(Text("Logs found", A123), FALSE, "True"),
     Findings(Text("Database records retrieved", A123), FALSE, "None")}

CacheInit ==
    /\ settings = [enable_caching |-> TRUE, enable_reflection |-> FALSE]
    /\ state \in {create_initial_state(q) : q \in {p \in Queries :
                      p.intent = "Investigation" /\ p.order_id = A123}}
    /\ CACHE = [k \in {} |-> [value |-> ErrorFindings, timestamp |-> 0]]
    /\ now = 0
    /\ pc = "cache"
    /\ calls = <<>>
    /\ decisions = {}
    /\ deviations = 0

\* CACHE.get(key, settings.cache_ttl_minutes)
CacheGet ==
    /\ Len(calls) < MaxOps
    /\ \E key \in CacheKeys :
       \E got \in {SimpleCache_get(CACHE, key, cache_ttl_minutes)} :
          /\ CACHE' = got.cache
          /\ calls' = Append(calls, [op |-> "get", key |-> key, found |-> got.found,
                                     value |-> got.value, time |-> now])
    /\ UNCHANGED <<state, settings, now, pc, decisions, deviations>>

\* CACHE.set(key, value)
CacheSet ==
    /\ Len(calls) < MaxOps
    /\ \E key \in CacheKeys : \E value \in CacheValues :
          /\ CACHE' = SimpleCache_set(CACHE, key, value)
          /\ calls' = Append(calls, [op |-> "set", key |-> key, found |-> TRUE,
                                     value |-> value, time |-> now])
    /\ UNCHANGED <<state, settings, now, pc, decisions, deviations>>

\* datetime.now() advances
CacheTick ==
    /\ now < MaxClock
    /\ now' = now + 1
    /\ UNCHANGED <<state, CACHE, settings, pc, calls, decisions, deviations>>

CacheNext == CacheGet \/ CacheSet \/ CacheTick

CacheSpec == CacheInit /\ [][CacheNext]_vars

(***************************************************************************)
(* A session: investigations run one after the other in one process, each  *)
(* on its own state (routes.py: create_initial_state per request), sharing *)
(* the module-level CACHE and the clock.  Caching is enabled and every     *)
(* external call and LLM call answers in the default way, within the TTL.  *)
(* calls keeps the log of the whole session, with an entry for the start   *)
(* of each further investigation.                                         *)
(***************************************************************************)
MaxRuns == 2

\* the classifier's output for a few query texts
SessionQueries ==
    {q \in [intent : {"Knowledge", "Data", "Investigation", "Comparison"},
            order_id : {<<>>, A123}, date : {""},
            comparison_order_id : {<<>>, A123}, comparison_date : {""},
            text : {"How does GOLD tier pricing work?",
                    "How does SILVER tier pricing work?", "about an order"}] :
        /\ q.intent = "Knowledge" <=> q.text # "about an order"
        /\ q.intent = "Knowledge" => q.order_id = <<>>
        /\ q.intent = "Comparison" <=> q.comparison_order_id = A123}

SessionInit ==
    /\ settings \in [enable_caching : {TRUE}, enable_reflection : BOOLEAN]
    /\ state \in {create_initial_state(q) : q \in SessionQueries}
    /\ CACHE = [k \in {} |-> [value |-> ErrorFindings, timestamp |-> 0]]
    /\ now = 0
    /\ pc = "supervisor"
    /\ calls = <<>>
    /\ decisions = {}
    /\ deviations = MaxDeviations

Runs == 1 + Cardinality({i \in 1..Len(calls) : calls[i].agent = "create_initial_state"})

\* routes.py:42-67, 100-140: the next request starts on a fresh state
NewInvestigation ==
    /\ pc = "END"
    /\ Runs < MaxRuns
    /\ \E q \in SessionQueries :
          /\ state' = create_initial_state(q)
          /\ calls' = Append(calls, [agent |-> "create_initial_state", query |-> q])
    /\ pc' = "supervisor"
    /\ UNCHANGED <<CACHE, settings, now, decisions, deviations>>

SessionNext ==
    \/ SupervisorNode
    \/ \E agent \in Agents : AgentNode(agent)
    \/ switch_to_comparison
    \/ SynthesizeNode
    \/ NewInvestigation

SessionSpec == SessionInit /\ [][SessionNext]_vars

(***************************************************************************)
(* Claims                                                                  *)
(***************************************************************************)
CallIndices == 1..Len(calls)

Failed(c) == c.exc # "none"

Nodes ==
    {"supervisor", "synthesize", "switch_to_comparison", "switch_to_comparison_enricher"}
        \cup {NodeName(agent) : agent \in Agents}

\* the node that pc names can run: a node runs as soon as pc names it, a
\* worker node under at least one admissible environment
CanRun ==
    \/ pc \in {"supervisor", "synthesize", "switch_to_comparison",
                "switch_to_comparison_enricher"}
    \/ \E agent \in Agents :
          /\ pc = NodeName(agent)
          /\ \E env \in Envs : \E r \in {execute(agent, state, CACHE, env)} : Admissible(env, r)

\* a worker runs at most once in a phase, except the database worker, which
\* may run once to resolve the id and once more to retrieve trade data
NoWorkerRunsTwice ==
    \A i, j \in CallIndices :
        (i < j /\ calls[i].agent = calls[j].agent /\ calls[i].phase = calls[j].phase)
            => /\ calls[i].agent = "Database_Agent"
               /\ calls[i].active_before /\ ~calls[j].active_before
               /\ \A k \in CallIndices : calls[k].agent = calls[i].agent
                                            /\ calls[k].phase = calls[i].phase => k \in {i, j}

\* what C1 says of every state: the routing result is a key of the path
\* map, the node that was selected can run, no worker is entered a second
\* time for the same purpose in a phase (at most eight worker invocations),
\* and END is entered from the synthesis step with final_answer set
C1_NeverAborts ==
    /\ pc # "ABORT"
    /\ pc = "END" \/ (pc \in Nodes /\ CanRun)
    /\ NoWorkerRunsTwice
    /\ Len(calls) <= 8
    /\ pc = "END" => /\ state.final_answer # NoAnswer
                     /\ state.messages[Len(state.messages)] = "Supervisor"
    /\ pc # "END" => state.final_answer = NoAnswer

C2_Decision(t, splunk_recent, comparison_enriches) ==
    LET afterDatabase == IF splunk_recent THEN "debugapiagent"
                         ELSE IF t.completed /\ ~t.active THEN "splunkagent"
                         ELSE "debugapiagent"
        leavePrimary == IF comparison_enriches THEN "switch_to_comparison_enricher"
                        ELSE "switch_to_comparison"
    IN  IF t.sender = "Summarization_Agent" THEN "synthesize"
        ELSE IF t.intent \in {"Knowledge", "Data", "Monitoring"} THEN "summarizationagent"
        ELSE IF t.intent = "CodeAnalysis"
        THEN (IF t.sender = "Database_Agent" THEN "codeagent" ELSE "summarizationagent")
        ELSE IF t.sender = "Order_Enricher_Agent" THEN "databaseagent"
        ELSE IF t.sender = "Database_Agent" THEN afterDatabase
        ELSE IF t.intent = "Comparison"
        THEN (IF t.sender = "Comparison_Agent" THEN "summarizationagent"
              ELSE IF t.sender \in {"Splunk_Agent", "DebugAPI_Agent"}
              THEN (IF t.phase = "primary" THEN leavePrimary ELSE "comparisonagent")
              ELSE "summarizationagent")
        ELSE IF t.sender = "Splunk_Agent"
        THEN (IF t.records_found THEN "summarizationagent" ELSE "databaseagent")
        ELSE "summarizationagent"

C3_RetryExhaustion ==
    \A i \in CallIndices :
        calls[i].tool_exc \in TransientErrors =>
            /\ calls[i].tool_calls = max_retries
            /\ calls[i].errors_logged = 1
            /\ calls[i].stored.summary = ErrorFindings.summary
            /\ calls[i].stored.analysis = ErrorFindings.analysis
            /\ calls[i].stored.logs_found = ErrorFindings.logs_found
            /\ pc = "END" => state.final_answer # NoAnswer

\* a run that ended with a final_answer although a core operation failed
\* with a transient-class error, after a single attempt
C3_Witness ==
    /\ pc = "END"
    /\ state.final_answer # NoAnswer
    /\ \E i \in CallIndices :
          /\ calls[i].tool_exc \in TransientErrors
          /\ calls[i].tool_calls = 1
          /\ calls[i].errors_logged = 1

\* the call that filled the cache entry a later call was served from
FilledBy(j) ==
    {i \in CallIndices :
        /\ i < j
        /\ calls[i].cache_key = calls[j].cache_key
        /\ ~calls[i].hit
        /\ calls[i].tool_exc = "none"}

SameButTimestamp(r1, r2) == [r1 EXCEPT !.timestamp = 0] = [r2 EXCEPT !.timestamp = 0]

\* C4: a call served from the cache (same worker, effective id and date,
\* within the TTL) runs the core operation zero times and stores the record
\* that the call which filled the entry stored, apart from the timestamp.
C4_CacheHitSameRecord ==
    \A j \in CallIndices :
        calls[j].hit =>
            /\ calls[j].tool_calls = 0
            /\ \A i \in FilledBy(j) : SameButTimestamp(calls[i].stored, calls[j].stored)

\* a call served from the cache that ran no core operation and stored a
\* record different from the first call's
C4_Witness ==
    \E j \in CallIndices :
        /\ calls[j].hit
        /\ calls[j].tool_calls = 0
        /\ \E i \in FilledBy(j) : ~SameButTimestamp(calls[i].stored, calls[j].stored)

\* C5: a call served from the cache never invokes the reflection step.
C5_NoReflectionOnHit ==
    \A j \in CallIndices : calls[j].hit => ~calls[j].reflected

\* a call served from the cache whose reflection step ran
C5_Witness ==
    \E j \in CallIndices : calls[j].hit /\ calls[j].reflected /\ calls[j].exc = "none"

\* the enrichment state of the primary phase, read from its fields; the
\* normalize worker is running while pc names it in the primary phase
PrimaryEnrichment(s, at) ==
    IF s.actual_order_id # None /\ ~s.enrichment_flow THEN "RESOLVED"
    ELSE IF s.enrichment_flow THEN "RESOLVING"
    ELSE IF at = "orderenricheragent" /\ s.current_investigation = "primary" THEN "NORMALIZING"
    ELSE "NONE"

ComparisonEnrichmentUnset(s) ==
    /\ s.comparison_aaa_order_id = None
    /\ ~s.comparison_enrichment_flow
    /\ s.comparison_actual_order_id = None

\* a comparison investigation in which only the primary id needs enrichment
OnlyPrimaryEnriches ==
    /\ state.parameters.intent = "Comparison"
    /\ needs_enrichment(state.parameters.order_id)
    /\ ~needs_enrichment(state.parameters.comparison_order_id)

LookupRaised ==
    \E i \in CallIndices :
        /\ calls[i].agent = "Database_Agent" /\ calls[i].purpose = "lookup"
        /\ calls[i].tool_exc # "none"

SwitchNodes == {"switch_to_comparison", "switch_to_comparison_enricher"}

\* C7: a step of a phase-switch node ends with the phase comparison,
\* step_counter 0 and the comparison phase's enrichment fields unset, and
\* leaves the primary findings, the primary enrichment fields, the query and
\* the parameters as they were.
C7_PhaseSwitch ==
    [][(pc \in SwitchNodes /\ pc' # pc) =>
          /\ state'.current_investigation = "comparison"
          /\ state'.investigation_step = 0
          /\ ComparisonEnrichmentUnset(state')
          /\ state'.findings = state.findings
          /\ state'.aaa_order_id = state.aaa_order_id
          /\ state'.enrichment_flow = state.enrichment_flow
          /\ state'.actual_order_id = state.actual_order_id
          /\ state'.user_query = state.user_query
          /\ state'.parameters = state.parameters]_vars

\* the state a phase-switch node leaves behind when the primary id was
\* resolved and the comparison id is about to be normalized
C7_Witness ==
    /\ pc = "orderenricheragent"
    /\ state.current_investigation = "comparison"
    /\ state.investigation_step = 0
    /\ state.actual_order_id # None
    /\ state.findings # EmptyDict
    /\ ComparisonEnrichmentUnset(state)

\* C8: a worker that runs in a phase whose resolved id is set and whose
\* active flag is false works on the resolved id: it is the id of its
\* context, of its cache key, and the only id it looks up or reports on.
C8_ResolvedIdUsed ==
    \A i \in CallIndices :
        (calls[i].resolved_before # None /\ ~calls[i].active_before) =>
            /\ calls[i].order_id = calls[i].resolved_before
            /\ calls[i].cache_key.order_id = calls[i].resolved_before
            /\ calls[i].ids \subseteq {calls[i].resolved_before}

\* the differencing worker, run after the comparison id was resolved,
\* working on the raw comparison id
C8_Witness ==
    \E i \in CallIndices :
        /\ calls[i].agent = "Comparison_Agent"
        /\ calls[i].resolved_before # None /\ ~calls[i].active_before
        /\ state.parameters.comparison_order_id \in calls[i].ids
        /\ state.parameters.comparison_order_id # calls[i].resolved_before

IsLogSearch(c) == c.agent = "Splunk_Agent"

IsTradeData(c) == c.agent = "Database_Agent" /\ c.purpose = "trade"

IsSimulation(c) == c.agent = "DebugAPI_Agent"

IsSummarization(c) == c.agent = "Summarization_Agent"

RecordsFound(c) == c.stored.logs_found = "True"

\* the single-order chain after the log-search call i, within the calls
\* made so far: summarization next when records were found, otherwise
\* trade-data retrieval, simulation, summarization
ChainAfter(i) ==
    LET n == Len(calls)
    IN  IF RecordsFound(calls[i])
        THEN /\ i + 1 <= n => IsSummarization(calls[i + 1])
             /\ \A j \in CallIndices : ~IsTradeData(calls[j]) /\ ~IsSimulation(calls[j])
        ELSE /\ i + 1 <= n => IsTradeData(calls[i + 1])
             /\ i + 2 <= n => IsSimulation(calls[i + 2])
             /\ i + 3 <= n => IsSummarization(calls[i + 3])

\* C9: in a single-order investigation every trade-data or simulation call
\* comes after a log-search call, and the calls after log-search are
\* summarization alone when its records-found flag is true, and trade-data
\* retrieval, simulation, summarization in that order when it is false.
C9_InvestigationChain ==
    state.parameters.intent = "Investigation" =>
        /\ \A j \in CallIndices :
               (IsTradeData(calls[j]) \/ IsSimulation(calls[j])) =>
                   \E i \in 1..(j - 1) : IsLogSearch(calls[i])
        /\ \A i \in CallIndices : IsLogSearch(calls[i]) => ChainAfter(i)

\* a single-order investigation in which the simulation ran and log-search
\* never did
C9_Witness ==
    /\ pc = "END"
    /\ state.parameters.intent = "Investigation"
    /\ \E j \in CallIndices : IsSimulation(calls[j])
    /\ \A i \in CallIndices : ~IsLogSearch(calls[i])

\* the full single-order chain ran in phase ph before call j: log-search,
\* then trade-data retrieval and simulation exactly when log-search's
\* records-found flag is false
FullChainBefore(ph, j) ==
    \E i \in 1..(j - 1) :
        /\ IsLogSearch(calls[i]) /\ calls[i].phase = ph
        /\ LET later == {k \in (i + 1)..(j - 1) : calls[k].phase = ph}
           IN  IF RecordsFound(calls[i])
               THEN \A k \in later : ~IsTradeData(calls[k]) /\ ~IsSimulation(calls[k])
               ELSE \E k \in later : /\ IsTradeData(calls[k])
                                     /\ \E m \in later : m > k /\ IsSimulation(calls[m])

\* C10: in a comparison investigation the differencing worker runs only
\* after the full single-order chain ran in the primary phase and then in
\* the comparison phase.
C10_ChainTwiceThenDiff ==
    state.parameters.intent = "Comparison" =>
        \A j \in CallIndices :
            calls[j].agent = "Comparison_Agent" =>
                /\ FullChainBefore("primary", j)
                /\ FullChainBefore("comparison", j)

\* a comparison investigation, with no failure at all, whose differencing
\* worker ran although log-search never ran in the comparison phase
C10_Witness ==
    /\ pc = "END"
    /\ deviations = 0
    /\ state.parameters.intent = "Comparison"
    /\ \E j \in CallIndices : calls[j].agent = "Comparison_Agent"
    /\ \A i \in CallIndices : ~(IsLogSearch(calls[i]) /\ calls[i].phase = "comparison")

AfterDifferencing == pc = "comparisonagent" /\ pc' # pc

\* C11 as stated: the step of the differencing worker leaves the primary
\* findings map and the comparison findings map exactly as they were.
C11_BothMapsUntouched ==
    [][AfterDifferencing =>
          /\ state'.findings = state.findings
          /\ state'.comparison_findings = state.comparison_findings]_vars

\* C11 (amended): the step of the differencing worker leaves the primary
\* findings map as it was, and changes the comparison findings map only by
\* recording the differencing worker's own finding: every entry of another
\* worker is still there unchanged, and no entry of another worker is added.
C11_OnlyOwnFindingRecorded ==
    [][AfterDifferencing =>
          /\ state'.findings = state.findings
          /\ DOMAIN state'.comparison_findings =
                 DOMAIN state.comparison_findings \cup {"Comparison_Agent"}
          /\ \A a \in DOMAIN state.comparison_findings \ {"Comparison_Agent"} :
                 state'.comparison_findings[a] = state.comparison_findings[a]
          /\ state'.comparison_findings["Comparison_Agent"] = calls'[Len(calls')].stored
          /\ "Comparison_Agent" \notin DOMAIN state.comparison_findings]_vars

\* the differencing worker has just run on findings of both phases, and its
\* own finding is in the comparison findings map next to the others
C11_Witness ==
    /\ pc = "summarizationagent"
    /\ calls # <<>> /\ calls[Len(calls)].agent = "Comparison_Agent"
    /\ calls[Len(calls)].stored.summary.kind = "Structured comparison"
    /\ DOMAIN state.findings # {}
    /\ {"Splunk_Agent", "Comparison_Agent"} \subseteq DOMAIN state.comparison_findings
    /\ state.comparison_findings["Comparison_Agent"] = calls[Len(calls)].stored

SummarizationCalls == {i \in CallIndices : IsSummarization(calls[i])}

\* what C12 says of every state and of every step
C12_OneSummaryOneSynthesis ==
    /\ [](/\ Cardinality(SummarizationCalls) <= 1
          /\ pc \in {"synthesize", "END"} =>
                 (calls # <<>> /\ SummarizationCalls = {Len(calls)})
          /\ pc = "END" <=> state.final_answer # NoAnswer)
    /\ [][/\ (pc' = "synthesize" /\ pc # "synthesize") => pc = "summarizationagent"
          /\ (pc' = "END" /\ pc # "END") => pc = "synthesize"
          /\ pc = "synthesize" => pc' \in {"synthesize", "END"} /\ calls' = calls
          /\ pc = "END" => vars' = vars]_vars

\* C12: in every run, whatever the intent, the summarization worker is
\* invoked exactly once and is the last worker invoked; synthesis is entered
\* from the summarization worker alone, runs once (it sets final_answer and
\* leads to END), and after it no worker runs and no routing step is taken;
\* and every run gets there.
C12_SummaryOnceThenSynthesis ==
    /\ C12_OneSummaryOneSynthesis
    /\ <>(pc = "END" /\ SummarizationCalls = {Len(calls)})

\* a code-analysis run on an order: database worker, code worker, then the
\* summarization worker, which failed, and synthesis after it
C12_Witness ==
    /\ pc = "END"
    /\ state.parameters.intent = "CodeAnalysis"
    /\ Len(calls) = 3
    /\ SummarizationCalls = {3}
    /\ Failed(calls[3])

PhaseMap(ph) == IF ph = "comparison" THEN state.comparison_findings ELSE state.findings

\* two calls of one worker in one phase for different purposes
TwoPurposes(i, j) ==
    /\ i < j
    /\ calls[i].agent = calls[j].agent
    /\ calls[i].phase = calls[j].phase
    /\ calls[i].purpose # calls[j].purpose

\* C13: when a worker ran twice in one phase for different purposes (the
\* database worker: id lookup, then trade-data retrieval), the finding the
\* first call recorded is still an entry of that phase's findings map after
\* the second call.
C13_EarlierPurposeKept ==
    \A i, j \in CallIndices :
        TwoPurposes(i, j) =>
            \E k \in DOMAIN PhaseMap(calls[i].phase) :
                PhaseMap(calls[i].phase)[k] = calls[i].stored

\* a single-order investigation in which the database worker looked the id
\* up and later retrieved trade data: the map holds the second finding under
\* the worker's name and the first is gone
C13_Witness ==
    /\ state.parameters.intent = "Investigation"
    /\ \E i, j \in CallIndices :
          /\ TwoPurposes(i, j)
          /\ calls[i].agent = "Database_Agent"
          /\ calls[i].purpose = "lookup" /\ calls[j].purpose = "trade"
          /\ calls[i].exc = "none" /\ calls[j].exc = "none"
          /\ state.findings["Database_Agent"] = calls[j].stored
          /\ \A k \in DOMAIN state.findings : state.findings[k] # calls[i].stored

IsNormalize(c) == c.agent = "Order_Enricher_Agent"

\* the cleaned id, the active flag and the resolved id of a phase
EnrichmentFields(s, ph) ==
    IF ph = "comparison"
    THEN [cleaned |-> s.comparison_aaa_order_id, active |-> s.comparison_enrichment_flow,
          resolved |-> s.comparison_actual_order_id]
    ELSE [cleaned |-> s.aaa_order_id, active |-> s.enrichment_flow,
          resolved |-> s.actual_order_id]

EnrichmentUnset == [cleaned |-> None, active |-> FALSE, resolved |-> None]

\* C14: the normalize worker is invoked at most once in each phase, and
\* whenever the router has selected it, the enrichment of the current phase
\* has not begun: its cleaned id, active flag and resolved id are unset and
\* the normalize worker has not run in that phase (so the phase is neither
\* resolved nor failed).
C14_OneNormalizePerPhase ==
    /\ \A i, j \in CallIndices :
           (IsNormalize(calls[i]) /\ IsNormalize(calls[j]) /\ calls[i].phase = calls[j].phase)
               => i = j
    /\ pc = "orderenricheragent" =>
           /\ EnrichmentFields(state, state.current_investigation) = EnrichmentUnset
           /\ \A i \in CallIndices :
                  IsNormalize(calls[i]) => calls[i].phase # state.current_investigation

\* a comparison of two ids that both need enrichment, at its end: the
\* normalize worker ran once in the primary and once in the comparison phase
C14_Witness ==
    /\ pc = "END"
    /\ \E i, j \in CallIndices :
          /\ IsNormalize(calls[i]) /\ calls[i].phase = "primary"
          /\ IsNormalize(calls[j]) /\ calls[j].phase = "comparison"
    /\ EnrichmentFields(state, "primary").resolved # None
    /\ EnrichmentFields(state, "comparison").resolved # None

\* the enrichment state of phase ph, read from the phase's fields in s, the
\* node at that pc names, and the calls cs made so far; a phase whose
\* normalize worker ran without storing a cleaned id is FAILED
EnrichmentStateOf(s, at, cs, ph) ==
    IF EnrichmentFields(s, ph).resolved # None /\ ~EnrichmentFields(s, ph).active
    THEN "RESOLVED"
    ELSE IF EnrichmentFields(s, ph).active THEN "RESOLVING"
    ELSE IF \E i \in 1..Len(cs) : IsNormalize(cs[i]) /\ cs[i].phase = ph THEN "FAILED"
    ELSE IF at = "orderenricheragent" /\ s.current_investigation = ph THEN "NORMALIZING"
    ELSE "NONE"

EnrichmentMoves ==
    {<<"NONE", "NORMALIZING">>, <<"NORMALIZING", "RESOLVING">>, <<"NORMALIZING", "FAILED">>,
     <<"RESOLVING", "RESOLVED">>}
        \cup {<<x, x>> : x \in {"NONE", "NORMALIZING", "RESOLVING", "RESOLVED", "FAILED"}}

C15_Step(ph) ==
    \A f \in {EnrichmentFields(state, ph)} : \A g \in {EnrichmentFields(state', ph)} :
        /\ <<EnrichmentStateOf(state, pc, calls, ph),
             EnrichmentStateOf(state', pc', calls', ph)>> \in EnrichmentMoves
        /\ g.cleaned # f.cleaned => (f = EnrichmentUnset /\ g.active /\ g.resolved = None)
        /\ g.resolved # f.resolved =>
               /\ f.resolved = None /\ f.cleaned # None /\ f.active
               /\ g.cleaned = f.cleaned /\ ~g.active
        /\ g.active # f.active => (g.cleaned # f.cleaned \/ g.resolved # f.resolved)
        /\ (f.resolved # None /\ ~f.active) => g = f

\* C15: in each phase every step moves the enrichment state along NONE,
\* NORMALIZING, RESOLVING, RESOLVED (or from NORMALIZING to FAILED) or leaves
\* it where it is: the cleaned id is stored once, together with active =
\* true; the resolved id is set only when the cleaned id is stored and
\* active is true, and setting it clears the active flag; once the resolved
\* id is set and active is false, the three fields never change.
C15_EnrichmentLifecycle ==
    [][C15_Step("primary") /\ C15_Step("comparison")]_vars

\* the comparison phase just resolved: the last call is the database
\* worker's lookup of the cleaned comparison id
C15_Witness ==
    /\ state.current_investigation = "comparison"
    /\ calls # <<>>
    /\ calls[Len(calls)].agent = "Database_Agent" /\ calls[Len(calls)].purpose = "lookup"
    /\ EnrichmentFields(state, "comparison") =
           [cleaned |-> clean_order_id(state.parameters.comparison_order_id),
            active |-> FALSE,
            resolved |-> lookup_actual_order_id(
                             clean_order_id(state.parameters.comparison_order_id))]
    /\ EnrichmentStateOf(state, pc, calls, "primary") = "RESOLVED"

\* the shape C16 names: without the separator '.', the id starts with 'D'
\* and has exactly 9 characters
EnrichmentShape(x) ==
    \E c \in {SelectSeq(x, LAMBDA ch : ch # ".")} : Len(c) = 9 /\ c[1] = "D"

PhaseId(ph) ==
    IF ph = "comparison" THEN state.parameters.comparison_order_id
    ELSE state.parameters.order_id

\* the entry decision of phase ph has been taken
PhaseStarted(ph) ==
    IF ph = "comparison" THEN state.current_investigation = "comparison"
    ELSE pc # "supervisor"

\* the id of phase ph was routed into the enrichment sub-flow
EntersEnrichment(ph) ==
    \/ pc = "orderenricheragent" /\ state.current_investigation = ph
    \/ \E i \in CallIndices : IsNormalize(calls[i]) /\ calls[i].phase = ph

IsLookup(c) == c.agent = "Database_Agent" /\ c.purpose = "lookup"

\* the applicability rule as needs_enrichment computes it
C16_ShapeRule(ids) == \A x \in ids : needs_enrichment(x) <=> EnrichmentShape(x)

EnrichingIntents == {"Investigation", "Comparison", "Data"}

IdsInHand ==
    {state.user_query.order_id, state.parameters.order_id, state.aaa_order_id} \ {None}

\* C17: for every id x, cleaning the cleaned id gives the cleaned id, and
\* validate_order_format gives the same result for clean_order_id(x) and for
\* clean_order_id(clean_order_id(x)); the cleaned id that the normalize
\* worker stored is its own cleaning and is valid.
C17_NormalizeIdempotent ==
    /\ \A x \in IdsInHand :
           /\ clean_order_id(clean_order_id(x)) = clean_order_id(x)
           /\ validate_order_format(clean_order_id(clean_order_id(x)))
                  = validate_order_format(clean_order_id(x))
    /\ state.aaa_order_id # None =>
           /\ state.aaa_order_id = clean_order_id(state.parameters.order_id)
           /\ clean_order_id(state.aaa_order_id) = state.aaa_order_id
           /\ validate_order_format(state.aaa_order_id).valid

\* the normalize worker has stored the cleaned form of an id with a dot,
\* generated from the alphabet
C17_Witness ==
    /\ state.aaa_order_id # None
    /\ state.parameters.order_id \notin OrderIds
    /\ Len(state.parameters.order_id) = Len(state.aaa_order_id) + 1
    /\ \E i \in CallIndices : IsNormalize(calls[i]) /\ calls[i].exc = "none"

NonTransient(c) == c.tool_exc \in ErrorKinds \ TransientErrors

LastCall(cs) == cs[Len(cs)]

\* C18: a call whose core operation raised a non-transient error ran the
\* core operation once, raised nothing to its caller, and stored the
\* degraded finding; the step of that call appended one entry to the
\* error_log it was given (the state after the step is the returned state
\* under the channel reducers), left the degraded finding under the worker's
\* name in the current phase's map, and ended with the next node selected
\* by the worker's routing function from the resulting state.
C18_NonTransientDegrades ==
    /\ [](\A i \in CallIndices :
              NonTransient(calls[i]) =>
                  /\ calls[i].tool_calls = 1 /\ calls[i].attempts = 1
                  /\ ~calls[i].raised
                  /\ calls[i].errors_logged = 1
                  /\ calls[i].stored.summary = ErrorFindings.summary
                  /\ calls[i].stored.analysis = ErrorFindings.analysis
                  /\ calls[i].stored.logs_found = ErrorFindings.logs_found)
    /\ [][(calls' # calls /\ NonTransient(LastCall(calls'))) =>
              \A c \in {LastCall(calls')} :
                  /\ state'.error_log =
                         operator_add(Append(state.error_log, <<c.agent, c.tool_exc>>),
                                      Append(state.error_log, <<c.agent, c.tool_exc>>))
                  /\ c.phase = state'.current_investigation
                  /\ IF c.phase = "comparison"
                     THEN /\ state'.comparison_findings[c.agent] = c.stored
                          /\ state'.findings = state.findings
                     ELSE /\ state'.findings[c.agent] = c.stored
                          /\ state'.comparison_findings = state.comparison_findings
                  /\ pc' \in Nodes
                  /\ pc' = edge_after(c.agent, state')]_vars

\* a run that ended with a final_answer after the id lookup of the database
\* worker raised a non-transient error
C18_Witness ==
    /\ pc = "END"
    /\ state.final_answer # NoAnswer
    /\ \E i \in CallIndices :
          /\ NonTransient(calls[i])
          /\ IsLookup(calls[i])
          /\ calls[i].tool_calls = 1 /\ ~calls[i].raised

\* the text of a final answer is empty: no text was set, or the naive
\* concatenation was made of no line at all
IsEmptyAnswer(a) == a.kind = "" \/ (a.kind = "simple" /\ DOMAIN a.lines = {})

SummarizationFailed == \E i \in CallIndices : IsSummarization(calls[i]) /\ Failed(calls[i])

\* C19: at the end of every run final_answer is not empty: it is the
\* summarization worker's full summary or raw data when its finding has
\* one, and otherwise the concatenation of one line per finding of the
\* findings map, or the text "No findings available" when the map is empty.
C19_FinalAnswerNonEmpty ==
    pc = "END" =>
        /\ ~IsEmptyAnswer(state.final_answer)
        /\ state.final_answer.kind \in
               {"full_summary", "raw_data", "simple", "No findings available"}
        /\ state.final_answer.kind = "simple" =>
               /\ DOMAIN state.final_answer.lines = DOMAIN state.findings
               /\ DOMAIN state.findings # {}
        /\ state.final_answer.kind = "No findings available" => DOMAIN state.findings = {}

\* a knowledge query at its end whose summarization worker failed: the
\* answer is the concatenation, with the degraded finding among its lines
C19_Witness ==
    /\ pc = "END"
    /\ state.parameters.intent = "Knowledge"
    /\ SummarizationFailed
    /\ state.final_answer.kind = "simple"
    /\ "Summarization_Agent" \in DOMAIN state.final_answer.lines
    /\ state.final_answer.lines["Summarization_Agent"] = ErrorFindings.summary

\* C20: at the end of a comparison investigation every finding recorded in
\* the comparison phase contributes to final_answer: the answer is the
\* summarization worker's summary of both phases, or it has a line for each
\* entry of the comparison findings map made of that entry's summary.
C20_BothPhasesInAnswer ==
    (pc = "END" /\ state.parameters.intent = "Comparison") =>
        \/ state.final_answer.kind \in {"full_summary", "raw_data"}
        \/ \A a \in DOMAIN state.comparison_findings :
               /\ a \in DOMAIN state.final_answer.lines
               /\ state.final_answer.lines[a] = state.comparison_findings[a].summary

\* a comparison investigation without any failure, at its end: the
\* differencing and the summarization worker recorded their findings in the
\* comparison map, and the answer is made of the primary map's entries alone
C20_Witness ==
    /\ pc = "END"
    /\ deviations = 0
    /\ state.parameters.intent = "Comparison"
    /\ {"Comparison_Agent", "Summarization_Agent"} \subseteq DOMAIN state.comparison_findings
    /\ state.comparison_findings["Comparison_Agent"].summary.kind = "Structured comparison"
    /\ state.final_answer.kind = "simple"
    /\ DOMAIN state.final_answer.lines = DOMAIN state.findings
    /\ \A a \in DOMAIN state.findings :
           state.final_answer.lines[a] = state.findings[a].summary
    /\ "Comparison_Agent" \notin DOMAIN state.final_answer.lines
    /\ "Summarization_Agent" \notin DOMAIN state.final_answer.lines

(***************************************************************************)
(* C21: the simple intents                                                 *)
(***************************************************************************)
SimpleIntents == {"Knowledge", "Monitoring", "Data"}

SimpleWorker(intent) ==
    CASE intent = "Knowledge" -> "VectorDB_Agent"
      [] intent = "Monitoring" -> "Monitoring_Agent"
      [] OTHER -> "Splunk_Agent"

WorkersBeforeSummarization == {i \in CallIndices : ~IsSummarization(calls[i])}

\* C21: in a run whose classified intent is Knowledge, Monitoring or Data,
\* the only worker invoked before summarization is the knowledge worker,
\* the monitoring worker and the log-search worker respectively, whatever
\* the order id: until it has run the run is at that worker's node, and
\* from summarization on exactly that one worker has been called.
C21_SimpleIntentOneWorker ==
    (pc # "supervisor" /\ state.parameters.intent \in SimpleIntents) =>
        /\ \A i \in WorkersBeforeSummarization :
              calls[i].agent = SimpleWorker(state.parameters.intent)
        /\ IF WorkersBeforeSummarization = {}
           THEN pc = NodeName(SimpleWorker(state.parameters.intent))
           ELSE /\ Cardinality(WorkersBeforeSummarization) = 1
                /\ pc \in {"summarizationagent", "synthesize", "END"}

\* a Data run on an id of the D-shape has ended: the normalize worker and
\* the summarization worker ran, the log-search worker never did
C21_Witness ==
    /\ pc = "END"
    /\ deviations = 0
    /\ state.parameters.intent = "Data"
    /\ state.parameters.order_id = D12_345_678
    /\ Len(calls) = 2
    /\ IsNormalize(calls[1])
    /\ IsSummarization(calls[2])
    /\ \A i \in CallIndices : ~IsLogSearch(calls[i])

(***************************************************************************)
(* C22: the two phases                                                     *)
(***************************************************************************)
\* the forms an order's identifier takes during a run: as classified,
\* cleaned, and resolved
OrderForms(x) ==
    IF x = <<>> THEN {<<>>}
    ELSE {x, clean_order_id(x)} \cup
         (IF clean_order_id(x) = <<>> THEN {}
          ELSE {lookup_actual_order_id(clean_order_id(x))})

\* the workers that investigate one order (the differencing worker reads
\* both phases, the summarization worker reads findings only)
InvestigatesOneOrder(c) ==
    c.agent \notin {"Comparison_Agent", "Summarization_Agent"}

\* C22: the phase is primary or comparison; it changes only from primary
\* to comparison (no call in the primary phase follows a call in the
\* comparison phase) and only when the intent is Comparison; a worker
\* called in the comparison phase works on no identifier but the comparison
\* order's, and a worker called in the primary phase on none but the
\* primary order's.
C22_PhasesAndOrders ==
    /\ state.current_investigation \in {"primary", "comparison"}
    /\ state.current_investigation = "comparison" =>
          state.parameters.intent = "Comparison"
    /\ \A i \in CallIndices :
          /\ calls[i].phase \in {"primary", "comparison"}
          /\ calls[i].phase = "comparison" =>
                /\ state.current_investigation = "comparison"
                /\ \A j \in CallIndices : j > i => calls[j].phase = "comparison"
          /\ InvestigatesOneOrder(calls[i]) =>
                calls[i].ids \subseteq OrderForms(PhaseId(calls[i].phase))

\* the log-search worker, called in the comparison phase of a comparison
\* of a D-shaped id with an id that needs no resolving, searches the logs
\* of the primary order's resolved id
C22_Witness ==
    \E i \in CallIndices :
        /\ calls[i].phase = "comparison"
        /\ IsLogSearch(calls[i])
        /\ calls[i].order_id = state.parameters.comparison_order_id
        /\ calls[i].ids = {state.actual_order_id}
        /\ state.actual_order_id \in OrderForms(state.parameters.order_id)
        /\ state.actual_order_id \notin OrderForms(state.parameters.comparison_order_id)

(***************************************************************************)
(* C23: classification failure                                             *)
(***************************************************************************)
\* the supervisor node has run and left no analysis message: the except
\* branch of analyze_query returns "messages": []
ClassificationFailed ==
    /\ pc # "supervisor"
    /\ (state.messages = <<>> \/ state.messages[1] # "Supervisor")

FallbackParameters ==
    QueryParameters("Knowledge", <<>>, CurrentDate, <<>>, "", "Fallback due to error")

\* C23: after a failed classification the parameters are the default set
\* (intent Knowledge, no order id, the current date) whose reasoning
\* records the failure, the run enters at a worker and not at synthesis,
\* and the run ends after synthesis with a non-empty final_answer.
C23_ClassificationFallback ==
    /\ [](ClassificationFailed =>
              /\ state.parameters = FallbackParameters
              /\ state.parameters.reasoning = "Fallback due to error"
              /\ pc \in Nodes \cup {"END"}
              /\ calls = <<>> => pc = "vectordbagent"
              /\ pc = "END" => ~IsEmptyAnswer(state.final_answer))
    /\ <>(pc = "END" /\ (ClassificationFailed => ~IsEmptyAnswer(state.final_answer)))

\* a run on an investigation query whose classification failed has ended
\* with an answer made of the knowledge worker's finding
C23_Witness ==
    /\ pc = "END"
    /\ ClassificationFailed
    /\ state.user_query.intent = "Investigation"
    /\ state.parameters.reasoning = "Fallback due to error"
    /\ "VectorDB_Agent" \in DOMAIN state.final_answer.lines
    /\ ~IsEmptyAnswer(state.final_answer)

(***************************************************************************)
(* C24: no parameters at the entry router                                  *)
(***************************************************************************)
\* C24: when the entry router finds no parameters it selects synthesize:
\* the run is at the router, at synthesize or at END, no worker has been
\* called, no finding is in either map, and the run ends with the answer
\* synthesis gives for an empty findings map.
C24_NoParametersToSynthesis ==
    /\ [](state.parameters = NoParameters =>
              /\ pc \in {"route_from_supervisor", "synthesize", "END"}
              /\ calls = <<>>
              /\ state.findings = EmptyDict
              /\ state.comparison_findings = EmptyDict
              /\ pc = "END" => state.final_answer = _simple_synthesis(state))
    /\ <>(pc = "END")

\* a run without parameters has ended after synthesis alone
C24_Witness ==
    /\ pc = "END"
    /\ state.parameters = NoParameters
    /\ calls = <<>>
    /\ state.final_answer.kind = "No findings available"
    /\ state.messages = <<"Supervisor", "Supervisor">>

(***************************************************************************)
(* C25: the normalize worker rejects the identifier                        *)
(***************************************************************************)
\* the first call of the run was the normalize worker's, on a classified id
\* that is empty or whose cleaned form fails the validation
NormalizeRejected ==
    /\ calls # <<>>
    /\ IsNormalize(calls[1])
    /\ ~validate_order_format(clean_order_id(state.parameters.order_id)).valid

\* C25: when the normalize worker rejects the id, its core operation ran
\* once and raised nothing, the worker is not called again, the phase's
\* cleaned id, active flag and resolved id stay unset, every later worker
\* that investigates the order is called with the classified id and looks
\* up no other, and the run ends after synthesis with an answer.
C25_RejectedIdAbandonsEnrichment ==
    /\ [](NormalizeRejected =>
              /\ calls[1].tool_calls = 1 /\ calls[1].attempts = 1
              /\ ~Failed(calls[1]) /\ calls[1].errors_logged = 0
              /\ EnrichmentFields(state, "primary")
                     = [cleaned |-> None, active |-> FALSE, resolved |-> None]
              /\ \A i \in CallIndices \ {1} :
                    /\ ~IsNormalize(calls[i])
                    /\ ~IsLookup(calls[i])
                    /\ InvestigatesOneOrder(calls[i]) =>
                          /\ calls[i].order_id = state.parameters.order_id
                          /\ calls[i].ids \subseteq {state.parameters.order_id}
              /\ pc \in Nodes \cup {"END"})
    /\ <>(pc = "END" /\ ~IsEmptyAnswer(state.final_answer))

\* a run on an id with a wrong prefix has ended: the normalize worker
\* rejected it, the database worker retrieved trade data for the classified
\* id, the simulation and the summarization worker followed
C25_Witness ==
    /\ pc = "END"
    /\ NormalizeRejected
    /\ state.parameters.order_id = A123
    /\ Len(calls) = 4
    /\ IsTradeData(calls[2]) /\ calls[2].ids = {A123}
    /\ IsSimulation(calls[3]) /\ calls[3].ids = {A123}
    /\ IsSummarization(calls[4])
    /\ state.aaa_order_id = None /\ state.actual_order_id = None

(***************************************************************************)
(* C26: a worker's finding is changed by that worker alone                 *)
(***************************************************************************)
MapOf(s, ph) == IF ph = "comparison" THEN s.comparison_findings ELSE s.findings

Phases == {"primary", "comparison"}

\* the calls of worker B in phase ph
CallsOf(B, ph) == {i \in CallIndices : calls[i].agent = B /\ calls[i].phase = ph}

\* C26: a step that runs the wrapper for worker A leaves the finding of
\* every other worker in both phases' maps as it was; in every state the
\* workers that have a finding in a phase are the workers called in that
\* phase, and each stored finding is the one written by that worker's most
\* recent call in that phase.
C26_OwnFindingOnly ==
    /\ [](\A ph \in Phases :
              /\ DOMAIN MapOf(state, ph) = {calls[i].agent : i \in {j \in CallIndices :
                                                                  calls[j].phase = ph}}
              /\ \A B \in DOMAIN MapOf(state, ph) :
                    \E i \in CallsOf(B, ph) :
                        /\ \A j \in CallsOf(B, ph) : j <= i
                        /\ MapOf(state, ph)[B] = calls[i].stored)
    /\ [][calls' # calls =>
              \A ph \in Phases :
              \A B \in DOMAIN MapOf(state, ph) \ {LastCall(calls').agent} :
                  /\ B \in DOMAIN MapOf(state', ph)
                  /\ MapOf(state', ph)[B] = MapOf(state, ph)[B]]_vars

\* an investigation has ended in which the database worker was called twice
\* (id lookup, then trade data): its finding is the one of the second call,
\* and the findings of the workers called in between are still in the map
C26_Witness ==
    /\ pc = "END"
    /\ \E i, j \in CallsOf("Database_Agent", "primary") :
          /\ i < j
          /\ calls[i].stored # calls[j].stored
          /\ state.findings["Database_Agent"] = calls[j].stored
          /\ \E k \in CallIndices :
                /\ i < k /\ k < j
                /\ state.findings[calls[k].agent] = calls[k].stored
    /\ Cardinality(DOMAIN state.findings) = 5

(***************************************************************************)
(* C27: the route after the database worker                                *)
(***************************************************************************)
\* the last call was the database worker's id lookup and it resolved the
\* id of its phase: the resolved id is set and the active flag is false
LookupJustCompleted ==
    /\ calls # <<>>
    /\ IsLookup(LastCall(calls))
    /\ ~Failed(LastCall(calls))
    /\ EnrichmentFields(state, LastCall(calls).phase).resolved # None
    /\ ~EnrichmentFields(state, LastCall(calls).phase).active

\* the last call was the database worker's trade-data retrieval, and the
\* log-search worker was called before it in the same phase
TradeDataAfterLogSearch ==
    /\ calls # <<>>
    /\ IsTradeData(LastCall(calls))
    /\ \E i \in CallIndices :
          IsLogSearch(calls[i]) /\ calls[i].phase = LastCall(calls).phase

\* C27: in either phase the node selected after a completed id lookup of
\* the database worker is the log-search worker, and the node selected
\* after a trade-data retrieval that followed log-search in the same phase
\* is the simulation worker.
C27_RouteAfterDatabase ==
    /\ LookupJustCompleted => pc = "splunkagent"
    /\ TradeDataAfterLogSearch => pc = "debugapiagent"

\* the comparison id has just been resolved by the database worker in the
\* comparison phase, every worker having succeeded, and the node selected
\* is the simulation worker
C27_Witness ==
    /\ LookupJustCompleted
    /\ LastCall(calls).phase = "comparison"
    /\ state.comparison_actual_order_id # None
    /\ ~state.comparison_enrichment_flow
    /\ deviations = 0
    /\ pc = "debugapiagent"

(***************************************************************************)
(* C28: the last worker as the router derives it                           *)
(***************************************************************************)
\* C28: once a worker has been called, the most recent transcript entry
\* that is not the supervisor's is the entry of the worker called last,
\* failed or not, so the sender the router works with is that worker and
\* not the stored sender field (which no node writes); the node selected
\* after a worker node is the one its routing function gives for the
\* resulting state, whose sender is the worker that has just run, and it
\* is the same whatever worker the stored sender field would name.
C28_SenderIsLastWorker ==
    /\ [](calls # <<>> =>
              /\ LastNonSupervisor(state.messages, Len(state.messages))
                     = LastCall(calls).agent
              /\ SenderOf(state) = LastCall(calls).agent
              /\ state.sender = "")
    /\ [][calls' # calls =>
              /\ RouterTuple(state').sender = LastCall(calls').agent
              /\ state'.messages[Len(state'.messages)] = LastCall(calls').agent
              /\ pc' = edge_after(LastCall(calls').agent, state')
              /\ \A a \in Agents :
                    edge_after(LastCall(calls').agent, [state' EXCEPT !.sender = a]) = pc']_vars

\* the routing decision after a failed call of the log-search worker in
\* the comparison phase: the transcript ends with that worker's entry
C28_Witness ==
    /\ calls # <<>>
    /\ Failed(LastCall(calls))
    /\ IsLogSearch(LastCall(calls))
    /\ LastCall(calls).phase = "comparison"
    /\ SenderOf(state) = "Splunk_Agent"
    /\ state.sender = ""
    /\ pc = "comparisonagent"

(***************************************************************************)
(* C29: what one call of execute writes                                    *)
(***************************************************************************)
\* the worker whose node is selected
Selected == {agent \in Agents : pc = NodeName(agent)}

\* what execute(agent, state) returns under environment env, against the
\* state it was given
C29_OneCall(agent, env) ==
    \A r \in {execute(agent, state, CACHE, env)} :
    \A ph \in {state.current_investigation} :
        /\ r.call.phase = ph
        /\ DOMAIN MapOf(r.s, ph) = DOMAIN MapOf(state, ph) \cup {agent}
        /\ MapOf(r.s, ph)[agent] = r.call.stored
        /\ r.call.stored.order_id = r.call.order_id
        /\ \A B \in DOMAIN MapOf(state, ph) \ {agent} :
              MapOf(r.s, ph)[B] = MapOf(state, ph)[B]
        /\ \A other \in Phases \ {ph} : MapOf(r.s, other) = MapOf(state, other)
        /\ r.s.messages = Append(state.messages, agent)
        /\ r.s.error_log = IF Failed(r.call)
                           THEN Append(state.error_log, <<agent, r.call.exc>>)
                           ELSE state.error_log
        /\ r.call.errors_logged = IF Failed(r.call) THEN 1 ELSE 0

\* C29: whenever a worker's node is selected, the call of execute on the
\* current state, under every environment (success, cache hit, failure of
\* the core operation or of the analysis), writes one record, under the
\* worker's name in the map of the active phase and nowhere else, appends
\* one transcript entry named after the worker, and appends one error_log
\* entry when it failed and none otherwise.
C29_OneFindingOneEntry ==
    \A agent \in Selected : \A env \in Envs : C29_OneCall(agent, env)

\* a run in which one call was served from the cache and another failed,
\* each having left its record in the map of its phase
C29_Witness ==
    /\ \E i \in CallIndices :
          /\ calls[i].hit
          /\ MapOf(state, calls[i].phase)[calls[i].agent] = calls[i].stored
    /\ \E j \in CallIndices :
          /\ Failed(calls[j])
          /\ calls[j].agent \in DOMAIN MapOf(state, calls[j].phase)
    /\ Len(state.error_log) > 0

(***************************************************************************)
(* C30: the record of a failed call                                        *)
(***************************************************************************)
\* C30: the record stored for a call that failed has an error field that
\* is set, and the record stored for a call that succeeded has none.
C30_DegradedFindingCarriesError ==
    \A i \in CallIndices :
        /\ Failed(calls[i]) =>
              /\ "error" \in DOMAIN calls[i].stored
              /\ \A f \in DOMAIN calls[i].stored :
                    f = "error" => calls[i].stored[f] # EmptyText
        /\ ~Failed(calls[i]) => "error" \notin DOMAIN calls[i].stored

\* the id lookup of the database worker failed, and the record stored for
\* it has the seven fields of every record, with an empty summary and an
\* empty analysis and nothing of the failure
C30_Witness ==
    \E i \in CallIndices :
        /\ Failed(calls[i])
        /\ IsLookup(calls[i])
        /\ MapOf(state, calls[i].phase)["Database_Agent"] = calls[i].stored
        /\ DOMAIN calls[i].stored = {"summary", "analysis", "order_id", "timestamp",
                                     "cache_key", "logs_found", "enriched"}
        /\ calls[i].stored.summary = EmptyText
        /\ calls[i].stored.analysis = EmptyText

(***************************************************************************)
(* C31: the summary as the final answer                                    *)
(***************************************************************************)
SummarizationSucceeded ==
    \E i \in CallIndices : IsSummarization(calls[i]) /\ ~Failed(calls[i])

\* C31: at the end of a run in which the summarization worker ran without
\* failure the final answer is the summary text the worker generated (its
\* full_summary, returned as raw_data), and the naive concatenation of the
\* stored summaries is the answer only when the summarization worker
\* failed or did not run.
C31_SummaryIsFinalAnswer ==
    pc = "END" =>
        /\ SummarizationSucceeded =>
              state.final_answer.kind \in {"full_summary", "raw_data"}
        /\ state.final_answer.kind \in {"simple", "No findings available"} =>
              ~SummarizationSucceeded

\* a knowledge query has ended, every worker having succeeded, and the
\* answer is the concatenation of the stored one-line summaries, the
\* summarization worker's "Comprehensive summary generated" among them
C31_Witness ==
    /\ pc = "END"
    /\ deviations = 0
    /\ state.parameters.intent = "Knowledge"
    /\ SummarizationSucceeded
    /\ \A i \in CallIndices : ~Failed(calls[i])
    /\ state.final_answer.kind = "simple"
    /\ DOMAIN state.final_answer.lines = {"VectorDB_Agent", "Summarization_Agent"}
    /\ state.final_answer.lines["Summarization_Agent"]
           = Text("Comprehensive summary generated", <<>>)

(***************************************************************************)
(* C32: get and set of the cache                                           *)
(***************************************************************************)
\* the operations on key before operation i that set it
SetsBefore(i, key) == {j \in 1..(i - 1) : calls[j].op = "set" /\ calls[j].key = key}

\* what get(key, ttl) returns now, as the caller sees it
Lookup(cache, key) ==
    {[found |-> got.found, value |-> IF got.found THEN {got.value} ELSE {}] :
        got \in {SimpleCache_get(cache, key, cache_ttl_minutes)}}

\* C32: a get finds a value exactly when the key has been set and the most
\* recent set of the key is less than the time-to-live old, and the value
\* found is the value of that set; after a get that found nothing the key
\* has no entry, and a later get finds nothing unless the key was set in
\* between; a set on one key leaves the result of get on every other key
\* as it was.
C32_GetSetExpiry ==
    /\ [](\A i \in CallIndices : calls[i].op = "get" =>
              /\ calls[i].found <=>
                    \E j \in SetsBefore(i, calls[i].key) :
                        /\ \A k \in SetsBefore(i, calls[i].key) : k <= j
                        /\ calls[i].time - calls[j].time < cache_ttl_minutes
              /\ calls[i].found =>
                    \E j \in SetsBefore(i, calls[i].key) :
                        /\ \A k \in SetsBefore(i, calls[i].key) : k <= j
                        /\ calls[i].value = calls[j].value
              /\ ~calls[i].found =>
                    \A l \in CallIndices :
                        (l > i /\ calls[l].op = "get" /\ calls[l].key = calls[i].key
                              /\ calls[l].found) =>
                            \E j \in SetsBefore(l, calls[i].key) : j > i)
    /\ [][(calls' # calls /\ LastCall(calls').op = "get" /\ ~LastCall(calls').found) =>
              LastCall(calls').key \notin DOMAIN CACHE']_vars
    /\ [][(calls' # calls /\ LastCall(calls').op = "set") =>
              \A key \in CacheKeys \ {LastCall(calls').key} :
                  Lookup(CACHE', key) = Lookup(CACHE, key)]_vars

\* a key was set, found by a get within the time-to-live, not found by a
\* get after it, and then set again, while the other key has never been
\* set
C32_Witness ==
    /\ Len(calls) = 4
    /\ \E key \in CacheKeys :
          /\ \A i \in CallIndices : calls[i].key = key
          /\ DOMAIN CACHE = {key}
    /\ calls[1].op = "set"
    /\ calls[2].op = "get" /\ calls[2].found /\ calls[2].value = calls[1].value
    /\ calls[3].op = "get" /\ ~calls[3].found /\ calls[3].time > calls[1].time
    /\ calls[4].op = "set"

(***************************************************************************)
(* C33: the id the log-search worker searches with in the comparison phase *)
(***************************************************************************)
\* the comparison phase's effective id at call c: the comparison resolved
\* id if it is set and the lookup is no longer active, else the classified
\* comparison id
ComparisonEffectiveId(c) ==
    IF c.resolved_before # None /\ ~c.active_before
    THEN c.resolved_before
    ELSE state.parameters.comparison_order_id

\* C33: a call of the log-search worker in the comparison phase searches
\* with the comparison phase's effective id and with no other id, the
\* primary phase's resolved id included.
C33_ComparisonLogSearchId ==
    \A i \in CallIndices :
        (IsLogSearch(calls[i]) /\ calls[i].phase = "comparison") =>
            /\ calls[i].order_id = ComparisonEffectiveId(calls[i])
            /\ calls[i].ids \subseteq {ComparisonEffectiveId(calls[i])}
            /\ ~calls[i].hit => calls[i].ids # {}
            /\ (state.actual_order_id # None
                   /\ state.actual_order_id # ComparisonEffectiveId(calls[i])) =>
                  state.actual_order_id \notin calls[i].ids

\* the primary id was resolved, the comparison id needed no resolving, and
\* the record the log-search worker left in the comparison findings is
\* filed under the comparison id while its summary is about the primary
\* phase's resolved id
C33_Witness ==
    \E i \in CallIndices :
        /\ IsLogSearch(calls[i]) /\ calls[i].phase = "comparison"
        /\ ~Failed(calls[i])
        /\ state.actual_order_id = ORD12345678
        /\ state.comparison_actual_order_id = None
        /\ calls[i].order_id = A123
        /\ calls[i].ids = {ORD12345678}
        /\ calls[i].stored.order_id = A123
        /\ calls[i].stored.summary = Text("Logs found", ORD12345678)

(***************************************************************************)
(* C34: the enrichment steps served from the cache                         *)
(***************************************************************************)
\* C34: after a call of the normalize worker that did not fail, on an id
\* of the D-shape, the phase's cleaned id is stored and its active flag is
\* true; after an id lookup of the database worker that did not fail, the
\* phase's resolved id is set and its active flag is false; in both cases
\* whether the call ran the worker or was served from the cache.
C34_CacheHitSameEnrichmentState ==
    calls # <<>> =>
        \A c \in {LastCall(calls)} :
        \A f \in {EnrichmentFields(state, c.phase)} :
            /\ (IsNormalize(c) /\ ~Failed(c) /\ needs_enrichment(PhaseId(c.phase))) =>
                  /\ f.cleaned = clean_order_id(PhaseId(c.phase))
                  /\ f.active
            /\ (IsLookup(c) /\ ~Failed(c)) =>
                  /\ f.resolved = lookup_actual_order_id(f.cleaned)
                  /\ ~f.active

\* a comparison of a D-shaped id with itself: the normalize worker's call
\* in the comparison phase was served from the entry its call in the
\* primary phase had stored, and the comparison phase's cleaned id is unset
\* and its active flag false when the database worker is to run
C34_Witness ==
    /\ calls # <<>>
    /\ IsNormalize(LastCall(calls))
    /\ LastCall(calls).hit
    /\ ~Failed(LastCall(calls))
    /\ LastCall(calls).phase = "comparison"
    /\ state.parameters.comparison_order_id = D12_345_678
    /\ state.comparison_aaa_order_id = None
    /\ ~state.comparison_enrichment_flow
    /\ pc = "databaseagent"

(***************************************************************************)
(* C35: a cached outcome and the current investigation                     *)
(***************************************************************************)
DefaultEnv == [ext |-> "ok", llm |-> DefaultLLMText]

\* what the core operation of the worker returns on state s
Computed(agent, s) ==
    _execute_tool(agent, _get_investigation_context(s), s, "ok").findings

\* what the cache would serve to the worker on state s, as the core
\* operation returned it (without the analysis the wrapper adds)
Served(agent, s) ==
    {[cc.tool.findings EXCEPT !.analysis = EmptyText] :
        cc \in {c \in {CacheCheck(agent, s, CACHE, DefaultEnv,
                                  _get_investigation_context(s))} : c.hit}}

\* C35: whenever a worker's node is selected and the cache holds a live
\* entry under the worker's key, the entry's value is the outcome the
\* worker's core operation computes on the current investigation's state.
C35_CachedOutcomeIsCurrent ==
    \A agent \in Selected :
        \A v \in Served(agent, state) : v = Computed(agent, state)

\* the second investigation of a session asks the knowledge worker another
\* question than the first one did, and the cache serves it the answer to
\* the first question
C35_Witness ==
    /\ pc = "vectordbagent"
    /\ Runs = 2
    /\ \E v \in Served("VectorDB_Agent", state) :
          /\ v.raw_data.query # {state.user_query}
          /\ \E q \in v.raw_data.query :
                /\ q.intent = "Knowledge" /\ state.user_query.intent = "Knowledge"
                /\ q.text # state.user_query.text

(***************************************************************************)
(* C36: the value held by the cache                                        *)
(***************************************************************************)
\* C36: every value the cache holds is what the core operation of the
\* worker returned when the entry was set, after a miss that stored it and
\* after every later hit: it carries no analysis (the core operations
\* return none; the analysis is the wrapper's), and it is the outcome the
\* log records for the call that stored it.
C36_CachedValueUnmodified ==
    \A key \in DOMAIN CACHE :
        /\ CACHE[key].value.analysis = EmptyText
        /\ \A i \in CallIndices :
              (calls[i].cache_key = key /\ ~calls[i].hit /\ ~Failed(calls[i])
                    /\ calls[i].time = CACHE[key].timestamp) =>
                  CACHE[key].value.summary = calls[i].stored.summary

\* the log-search worker has stored its result, and the value held under
\* its key carries the analysis the wrapper wrote into the worker's
\* findings after the set
C36_Witness ==
    /\ calls # <<>>
    /\ IsLogSearch(LastCall(calls))
    /\ ~LastCall(calls).hit
    /\ ~Failed(LastCall(calls))
    /\ LastCall(calls).cache_key \in DOMAIN CACHE
    /\ CACHE[LastCall(calls).cache_key].value.analysis # EmptyText
    /\ CACHE[LastCall(calls).cache_key].value.analysis = LastCall(calls).stored.analysis

(***************************************************************************)
(* C37: the transcript and the error log under the additive merge          *)
(***************************************************************************)
\* the step records of the run so far, in execution order: the
\* supervisor's entry when the classification succeeded, one entry per call
\* of a worker, the supervisor's entry of the synthesis
StepRecords ==
    (IF state.parameters.reasoning = "classified" THEN <<"Supervisor">> ELSE <<>>)
        \o [i \in CallIndices |-> calls[i].agent]
        \o (IF pc = "END" THEN <<"Supervisor">> ELSE <<>>)

\* the error records of the run so far, in execution order: one per failed
\* call
RECURSIVE ErrorRecords(_)
ErrorRecords(n) ==
    IF n = 0 THEN <<>>
    ELSE IF Failed(calls[n])
         THEN Append(ErrorRecords(n - 1), <<calls[n].agent, calls[n].exc>>)
         ELSE ErrorRecords(n - 1)

\* C37: once the supervisor has run, the transcript of the state (the one
\* every routing decision reads) is the sequence of the step records, each
\* once and in execution order, and the error log is the sequence of the
\* error records of the failed calls, each once and in execution order: no
\* node's update makes the additive merge repeat earlier entries.
C37_TranscriptOnceInOrder ==
    pc \notin {"supervisor", "ABORT"} =>
        /\ state.messages = StepRecords
        /\ state.error_log = ErrorRecords(Len(calls))

\* the routing decision after the first worker of an investigation: the
\* worker node returned the whole state, and the transcript the router reads
\* holds the supervisor's and the worker's entries twice
C37_Witness ==
    /\ Len(calls) = 1
    /\ calls[1].agent = "Splunk_Agent"
    /\ state.parameters.intent = "Investigation"
    /\ pc \in Nodes
    /\ StepRecords = <<"Supervisor", "Splunk_Agent">>
    /\ state.messages = <<"Supervisor", "Splunk_Agent", "Supervisor", "Splunk_Agent">>

(***************************************************************************)
(* C38: the router's test and the normalize worker's validation agree      *)
(***************************************************************************)
\* the normalize worker's verdict on an id: the validation of its cleaned form
ValidatorAccepts(x) == validate_order_format(clean_order_id(x)).valid

\* C38: for every identifier a run is started with (each id of IdInputs
\* starts one) the router's needs_enrichment is true exactly when the normalize worker's validation of the cleaned
\* identifier reports valid; in a run, once the supervisor has routed, the
\* normalize worker's node was entered, for an intent that investigates an
\* order, exactly when the validation accepts the classified id, and no call of the normalize worker reports a
\* validation failure: each stores the "Enriched" finding for the cleaned
\* form of the id of its phase.
C38_RouterAgreesWithValidator ==
    /\ \A x \in {state.user_query.order_id, state.user_query.comparison_order_id} :
          needs_enrichment(x) <=> ValidatorAccepts(x)
    /\ (pc # "supervisor" /\ state.parameters.intent \in EnrichingIntents) =>
          (EntersEnrichment("primary") <=> ValidatorAccepts(PhaseId("primary")))
    /\ \A i \in CallIndices :
          IsNormalize(calls[i]) =>
              /\ needs_enrichment(PhaseId(calls[i].phase))
              /\ ValidatorAccepts(PhaseId(calls[i].phase))
              /\ calls[i].stored.summary.kind # "Validation failed"
              /\ ~Failed(calls[i]) =>
                    calls[i].stored.summary
                        = Text("Enriched", clean_order_id(PhaseId(calls[i].phase)))

\* the router sent a dotted id (ten characters, nine without the dot, the
\* first a 'D') to the normalize worker, which accepted it and stored the
\* "Enriched" finding and the cleaned id
C38_Witness ==
    /\ calls # <<>>
    /\ IsNormalize(calls[1])
    /\ state.parameters.order_id = <<"D", ".", "1", "1", "1", "1", "1", "1", "1", "1">>
    /\ calls[1].stored.summary = Text("Enriched", <<"D", "1", "1", "1", "1", "1", "1", "1", "1">>)
    /\ state.aaa_order_id = <<"D", "1", "1", "1", "1", "1", "1", "1", "1">>

====
